---- MODULE Spec2Model ----
(***************************************************************************)
(* GeeCache: a peer-sharded read-through cache.                            *)
(*                                                                         *)
(*   HttpAddr (router)   Set / PickPeer over a consistent-hash ring        *)
(*   Group               Get = singleflight.Do(key, peer fetch | loader)   *)
(*   Cache (store)       RWMutex around a lazily created LRU               *)
(*                                                                         *)
(* Strings are sequences of byte codes, so that concatenation and hashing  *)
(* are computed, not assumed.                                              *)
(***************************************************************************)
EXTENDS Integers, Sequences, FiniteSets, TLC

(***************************************************************************)
(* Bounds of the model.                                                    *)
(***************************************************************************)
\* the hash function maps into 0 .. HashSpace-1 (uint32 in the program); a
\* small space makes collisions and wrap-around of the ring happen
HashSpace == 16
\* multiplier of the stand-in hash function
HashMult == 7
\* number of different hash functions the router is checked with
MaxSalt == 2
\* virtual points per peer (the program's num, scaled down)
Replicas == 2
\* longest peer list passed to Set
MaxPeers == 2
\* number of goroutines calling Group.Get
NumThreads == 2
\* total number of Group.Get calls started in one run
MaxGets == 2
\* number of Set calls made while the group is serving
MaxSets == 1
\* number of goroutines calling NewGroup, GetGroup and RegisterPeers
NumRegThreads == 2
\* total number of registry and RegisterPeers calls started in one run
MaxRegOps == 3
\* number of goroutines calling Cache.Add and Cache.Get
NumStoreThreads == 2
\* total number of Cache.Add and Cache.Get calls started in one run
MaxStoreOps == 4
\* number of Add, Get and RemoveOldest calls made on an LRU in one run
MaxLruOps == 4
\* the largest byte budget a store is created with
MaxBudget == 4
\* the longest buffer a ByteView is made from
MaxViewLen == 2
\* number of accessor calls and writes made around one ByteView
MaxViewOps == 4
\* number of requests Serve is called with in one run
MaxReqs == 4
\* the most hops a request is followed for
MaxHops == 3

(***************************************************************************)
(* Strings.                                                                *)
(***************************************************************************)
\* "/_geecache/"
defaultBasePath == <<47, 95, 103, 101, 101, 99, 97, 99, 104, 101, 47>>

\* the host of the local node and two other nodes, "A", "B" and "H"; "" is
\* no node.  Under the first hash function the virtual point "1A" has the
\* hash of "0H", so some rings have colliding points.
Host == <<65>>
PeerIds == {<<65>>, <<66>>, <<72>>}
EmptyString == <<>>

\* keys looked up in the ring, and the ones requested from the group
Keys == {<<75>>, <<76>>, <<77>>}
GroupKeys == {<<75>>, <<76>>}

RECURSIVE Digits(_)
\* the decimal digits of n, as byte codes: strconv.Itoa
Itoa(n) == IF n < 10 THEN <<48 + n>> ELSE Digits(n)
Digits(n) == IF n < 10 THEN <<48 + n>> ELSE Digits(n \div 10) \o <<48 + (n % 10)>>

SeqsUpTo(S, n) == UNION {[1..m -> S] : m \in 0..n}
Range(s) == {s[i] : i \in DOMAIN s}

(***************************************************************************)
(* consistenthash.Map: the ring.                                           *)
(***************************************************************************)
RECURSIVE HashAcc(_, _, _)
HashAcc(s, acc, salt) ==
    IF s = <<>> THEN acc
    ELSE HashAcc(Tail(s), (acc * (HashMult + salt) + Head(s)) % HashSpace, salt)

\* the hash function of the ring, a function of the bytes of the string
Hash(s, salt) == HashAcc(s, salt, salt)

\* consistenthash.New(replicas, nil)
NewMap(replicas, salt) ==
    [nil |-> FALSE, replicas |-> replicas, salt |-> salt,
     keys |-> <<>>, hashMap |-> <<>>]

\* the zero *Map of a router that was never Set
NilMap == [nil |-> TRUE, replicas |-> 0, salt |-> 0, keys |-> <<>>, hashMap |-> <<>>]

\* m.hashMap[h] = node
MapPut(hm, h, node) == [x \in DOMAIN hm \cup {h} |-> IF x = h THEN node ELSE hm[x]]

RECURSIVE AddReplicas(_, _, _)
\* the inner loop of AddKeys: points i .. replicas-1 of one node
AddReplicas(m, node, i) ==
    IF i >= m.replicas THEN m
    ELSE LET h == Hash(Itoa(i) \o node, m.salt)
         IN  AddReplicas([m EXCEPT !.keys = Append(@, h),
                                   !.hashMap = MapPut(@, h, node)], node, i + 1)

RECURSIVE AddNodes(_, _)
AddNodes(m, nodes) ==
    IF nodes = <<>> THEN m
    ELSE AddNodes(AddReplicas(m, Head(nodes), 0), Tail(nodes))

\* Map.AddKeys(nodes...): append every virtual point, then sort the ring
AddKeys(m, nodes) ==
    LET a == AddNodes(m, nodes)
    IN  [a EXCEPT !.keys = SortSeq(@, LAMBDA x, y : x < y)]

RECURSIVE SearchLoop(_, _, _, _)
\* the loop of sort.Search over the indices i..j-1 (from 0): halve the range
\* on the test keys[mid] >= h
SearchLoop(keys, h, i, j) ==
    IF i >= j THEN i
    ELSE LET mid == (i + j) \div 2
         IN  IF keys[mid + 1] >= h
             THEN SearchLoop(keys, h, i, mid)
             ELSE SearchLoop(keys, h, mid + 1, j)

\* sort.Search(n, f): by binary search, the smallest index in 1..n+1 from
\* which keys[i] >= h
Search(keys, h) == SearchLoop(keys, h, 0, Len(keys)) + 1

\* Map.Get(key): the node of the first virtual point at or after hash(key)
MapGetNoWrap(m, key) ==
    IF Len(m.keys) = 0 THEN EmptyString
    ELSE LET idx == Search(m.keys, Hash(key, m.salt))
             i == IF idx > Len(m.keys) THEN Len(m.keys) ELSE idx
         IN  m.hashMap[m.keys[i]]
MapGet(m, key) ==
    IF Len(m.keys) = 0 THEN EmptyString
    ELSE LET idx == Search(m.keys, Hash(key, m.salt))
             i == IF idx > Len(m.keys) THEN 1 ELSE idx
         IN  m.hashMap[m.keys[i]]

(***************************************************************************)
(* State.                                                                  *)
(***************************************************************************)
VARIABLES
    \* HttpAddr (the router of the local node)
    hashFn,         \* the hash function the rings are built with
    peers,          \* HttpAddr.peers: the ring, nil until the first Set
    HttpClients,    \* HttpAddr.HttpClients: peer -> handle
    \* what the router was asked, kept to state the properties
    lastSet,        \* the peer list of the latest Set
    earlier,        \* the peers passed to the Sets before the latest
    setCount,       \* number of Sets so far
    picked,         \* the latest PickPeer made on the router directly
    \* Group
    gpeers,         \* Group.peers: TRUE once a peer-picker is registered
    m,              \* singleflight.Group.m: key -> the Call in flight
    calls,          \* every Call created so far; a Call is named by its index
    pc,             \* where each goroutine stands in Group.Get
    tkey,           \* the key of the Get a goroutine is in
    mycall,         \* the Call a goroutine registered or waits on
    ret,            \* what the latest Get of a goroutine returned
    \* what the group was asked, kept to state the properties
    gets,           \* number of Gets started
    okVal,          \* key -> the Calls the latest returns of Get(key) came from
    prior,          \* goroutine -> okVal of its key when its Get began
    fin,            \* goroutine -> the finished Calls of its key when its Get began
    \* Cache (the store of the group)
    Cache_bytes,    \* Cache.Cache_bytes: the byte budget
    lru_cache,      \* Cache.lru_cache: the inner LRU, nil until the first Add
    writer,         \* Cache.mu: the goroutine holding the write lock, or 0
    readers,        \* Cache.mu: the goroutines holding the read lock
    spc,            \* where each goroutine stands in Cache.Add / Cache.Get
    skey,           \* the key of the store call a goroutine is in
    sval,           \* the view a goroutine is adding
    torn,           \* goroutine -> its move in the list overlapped another
    sret,           \* what the latest Cache.Get of a goroutine returned
    storeOps,       \* number of store calls started
    added,          \* key -> the view of the latest Add of the key that returned
    \* the registry of groups (package variables mu, groups) and the groups made
    groups,         \* groups: name -> the Group installed under it
    objs,           \* every Group built so far; a Group is named by its index
    rmuW,           \* mu: the goroutine holding the write lock, or 0
    rmuR,           \* mu: the goroutines holding the read lock
    rpc,            \* where each goroutine stands in its registry call
    rarg,           \* the arguments of the call a goroutine is in
    rres,           \* what the latest call of a goroutine returned
    regOps,         \* number of calls started
    \* what an LRU used on its own was asked, kept to state the properties
    touched,        \* key -> the number of the latest Add or Get hit of the key
    lastOp,         \* the latest call made on the LRU
    \* ByteView and the byte slices around it
    heap,           \* backing arrays: slice -> its bytes
    caller,         \* the slice b the caller made the view from
    view,           \* the ByteView: made, and the slice bt it holds
    orig,           \* the bytes of b when NewByteView was called
    got,            \* the slices ByteSlice returned to the caller
    vres,           \* what the latest accessor call returned
    muts,           \* number of writes the caller made so far
    viewOps,        \* number of accessor calls and writes so far
    \* HttpAddr.Serve
    hpc,            \* where each goroutine is in Serve
    hreq,           \* the request it serves: path, group name and key
    resp,           \* what it wrote for its latest request
    reqs,           \* number of requests so far
    codes,          \* the status codes written so far
    \* locks
    held,           \* goroutine of the group -> the locks it holds
    \* the fleet
    flist,          \* the peer list every node was Set with
    trail,          \* the nodes a Get went through, with the key each was asked
    fdone           \* a loader was invoked for the Get

routerVars == <<hashFn, peers, HttpClients, lastSet, earlier, setCount, picked>>

\* a nil *HttpClient
NilClient == [nil |-> TRUE, BaseURL |-> EmptyString]
NoPick == [done |-> FALSE, key |-> EmptyString, owner |-> EmptyString,
           ok |-> FALSE, client |-> NilClient, panic |-> FALSE, at |-> 0]

(***************************************************************************)
(* HttpAddr: Set and PickPeer.  Both hold p.mu from entry to return, so    *)
(* each is one step.                                                       *)
(***************************************************************************)
\* NewHttpAddr(host): Host and Path set, ring and handles left nil
InitRouter(salts) ==
    /\ hashFn \in salts
    /\ peers = NilMap
    /\ HttpClients = <<>>
    /\ lastSet = [done |-> FALSE, peers |-> <<>>]
    /\ earlier = {}
    /\ setCount = 0
    /\ picked = NoPick

\* the ring Set installs, built from nothing but the list it was given
SetRingFirst(P) ==
    AddKeys(NewMap(Replicas, hashFn), IF P = <<>> THEN P ELSE <<Head(P)>>)
SetRingKeep(P) == AddKeys(IF peers.nil THEN NewMap(Replicas, hashFn) ELSE peers, P)
SetRing(P) == AddKeys(NewMap(Replicas, hashFn), P)

\* the handle map Set installs: one handle per peer of the list
SetClients(P) == [peer \in Range(P) |-> [nil |-> FALSE, BaseURL |-> peer \o defaultBasePath]]

Set(P) ==
    /\ peers' = SetRing(P)
    /\ HttpClients' = SetClients(P)
    /\ lastSet' = [done |-> TRUE, peers |-> P]
    /\ earlier' = earlier \cup Range(lastSet.peers)
    /\ setCount' = setCount + 1
    /\ UNCHANGED <<hashFn, picked>>

\* p.HttpClients[peer]: a missing entry reads as nil
ClientOf(peer) == IF peer \in DOMAIN HttpClients THEN HttpClients[peer] ELSE NilClient

\* what PickPeer(key) returns on a router that was Set
PickPeerNoSelfCheck(key) ==
    LET peer == MapGet(peers, key)
    IN  IF peer # EmptyString
        THEN [ok |-> TRUE, client |-> ClientOf(peer), owner |-> peer]
        ELSE [ok |-> FALSE, client |-> NilClient, owner |-> peer]
PickPeerNoEmptyCheck(key) ==
    LET peer == MapGet(peers, key)
    IN  IF peer # Host
        THEN [ok |-> TRUE, client |-> ClientOf(peer), owner |-> peer]
        ELSE [ok |-> FALSE, client |-> NilClient, owner |-> peer]
PickPeer(key) ==
    LET peer == MapGet(peers, key)
    IN  IF peer # EmptyString /\ peer # Host
        THEN [ok |-> TRUE, client |-> ClientOf(peer), owner |-> peer]
        ELSE [ok |-> FALSE, client |-> NilClient, owner |-> peer]

\* a PickPeer call made on the router; p.peers.Get on a nil ring panics
PickPeerCall(key) ==
    /\ picked' = IF peers.nil
                 THEN [NoPick EXCEPT !.done = TRUE, !.key = key, !.panic = TRUE]
                 ELSE LET r == PickPeer(key)
                      IN  [done |-> TRUE, key |-> key, owner |-> r.owner,
                           ok |-> r.ok, client |-> r.client, panic |-> FALSE,
                           at |-> setCount]
    /\ UNCHANGED <<hashFn, peers, HttpClients, lastSet, earlier, setCount>>

(***************************************************************************)
(* Group.Get, with singleflight.Do unfolded into its steps.                *)
(***************************************************************************)
groupVars == <<gpeers, m, calls, pc, tkey, mycall, ret, gets, okVal, prior, fin>>

Threads == 1..NumThreads

\* the byte strings the loader and the peers hand out
Values == {<<1>>, <<2>>}
\* nil, and the errors a loader and a peer fetch return
NoErr == "nil"
LoaderErrs == {"not-found"}
PeerErrs == {"peer-failed"}

\* cache.NewByteView(b): a view of a copy of b
NewByteView(b) == [bt |-> b]
\* cache.ByteView{}
ZeroView == [bt |-> <<>>]

NoRet == [done |-> FALSE, key |-> EmptyString, val |-> ZeroView, err |-> NoErr]
\* what is remembered of the Gets of a key that have returned: whether any
\* has, the Call of the latest that returned a view, and the Call of the
\* latest that ran the closure itself and returned its error
NoVal == [rets |-> FALSE, okCall |-> 0, errCall |-> 0]

\* a Call: the result slots and the wait group, and how the closure ran
\* (loads: loader invocations; picked: a remote peer was picked; emptyRing:
\* the picker was asked after a Set with no peers; peerErr: the error of the
\* peer fetch; pb: the bytes of the peer fetch; lb, le: what the loader
\* returned; src: who supplied the result)
NewCall(k) == [key |-> k, done |-> FALSE, val |-> ZeroView, err |-> NoErr,
               loads |-> 0, picked |-> FALSE, emptyRing |-> FALSE,
               peerErr |-> NoErr, pb |-> <<>>, lb |-> <<>>, le |-> NoErr,
               src |-> "none"]

InitGroup ==
    /\ gpeers = FALSE
    /\ m = <<>>
    /\ calls = <<>>
    /\ pc = [t \in Threads |-> "idle"]
    /\ tkey = [t \in Threads |-> EmptyString]
    /\ mycall = [t \in Threads |-> 0]
    /\ ret = [t \in Threads |-> NoRet]
    /\ gets = 0
    /\ okVal = [k \in GroupKeys |-> NoVal]
    /\ prior = [t \in Threads |-> NoVal]
    /\ fin = [t \in Threads |-> {}]

\* Group.RegisterPeers on a group that has no picker yet
RegisterPeers ==
    /\ ~gpeers
    /\ gpeers' = TRUE
    /\ UNCHANGED <<m, calls, pc, tkey, mycall, ret, gets, okVal, prior, fin>>

\* Group.Get(k) is entered: it goes to g.loader.Do(key, fn) at once
GetEnter(t, k) ==
    /\ pc[t] = "idle"
    /\ gets < MaxGets
    /\ pc' = [pc EXCEPT ![t] = "do"]
    /\ tkey' = [tkey EXCEPT ![t] = k]
    /\ gets' = gets + 1
    /\ prior' = [prior EXCEPT ![t] = okVal[k]]
    /\ fin' = [fin EXCEPT ![t] = {c \in DOMAIN calls : calls[c].key = k /\ calls[c].done}]
    /\ UNCHANGED <<gpeers, m, calls, mycall, ret, okVal>>

\* the key Get hands to Do: the key it was asked for
DoKeyPerCaller(t) == tkey[t] \o <<t>>
DoKey(t) == tkey[t]

\* Do, under g.mu: join the Call of the key, or install a new one
DoLookup(t) ==
    /\ pc[t] = "do"
    /\ IF DoKey(t) \in DOMAIN m
       THEN /\ mycall' = [mycall EXCEPT ![t] = m[DoKey(t)]]
            /\ pc' = [pc EXCEPT ![t] = "wait"]
            /\ UNCHANGED <<m, calls>>
       ELSE /\ calls' = Append(calls, NewCall(tkey[t]))
            /\ m' = MapPut(m, DoKey(t), Len(calls) + 1)
            /\ mycall' = [mycall EXCEPT ![t] = Len(calls) + 1]
            /\ pc' = [pc EXCEPT ![t] = "fn"]
    /\ UNCHANGED <<gpeers, tkey, ret, gets, okVal, prior, fin>>

\* the return of Group.Get: an error comes with the zero view
GetResult(k, val, err) ==
    IF err # NoErr THEN [done |-> TRUE, key |-> k, val |-> ZeroView, err |-> err]
    ELSE [done |-> TRUE, key |-> k, val |-> val, err |-> NoErr]

\* Get returns what Do returned; own: this caller ran the closure
Return(t, c, own) ==
    /\ ret' = [ret EXCEPT ![t] = GetResult(tkey[t], calls[c].val, calls[c].err)]
    /\ okVal' = [okVal EXCEPT ![tkey[t]] =
                    [rets |-> TRUE,
                     okCall |-> IF calls[c].err = NoErr THEN c ELSE @.okCall,
                     errCall |-> IF calls[c].err # NoErr /\ own THEN c ELSE @.errCall]]
    /\ pc' = [pc EXCEPT ![t] = "idle"]

\* Do, a joiner: c.wg.Wait() returns once the Call is done; Get returns
DoWaitNoBlock(t) ==
    /\ pc[t] = "wait"
    /\ Return(t, mycall[t], FALSE)
    /\ UNCHANGED <<gpeers, m, calls, tkey, mycall, gets, prior, fin>>
DoWait(t) ==
    /\ pc[t] = "wait"
    /\ calls[mycall[t]].done
    /\ Return(t, mycall[t], FALSE)
    /\ UNCHANGED <<gpeers, m, calls, tkey, mycall, gets, prior, fin>>

\* the loader g.f(key) is invoked, after a peer fetch failed with e or
\* (e nil) with no peer picked; asked: the picker was just asked
StartLoadTwice(t, e, asked) ==
    /\ pc' = [pc EXCEPT ![t] = "load"]
    /\ calls' = [calls EXCEPT ![mycall[t]].loads = @ + 2,
                              ![mycall[t]].peerErr = e,
                              ![mycall[t]].emptyRing = asked /\ lastSet.peers = <<>>]
StartLoad(t, e, asked) ==
    /\ pc' = [pc EXCEPT ![t] = "load"]
    /\ calls' = [calls EXCEPT ![mycall[t]].loads = @ + 1,
                              ![mycall[t]].peerErr = e,
                              ![mycall[t]].emptyRing = asked /\ lastSet.peers = <<>>]

\* the closure starts: ask the picker, if there is one, for a remote peer
FnStart(t) ==
    /\ pc[t] = "fn"
    /\ IF ~gpeers
       THEN StartLoad(t, NoErr, FALSE)
       ELSE IF peers.nil
       THEN /\ pc' = [pc EXCEPT ![t] = "panic"]
            /\ UNCHANGED calls
       ELSE LET r == PickPeer(tkey[t])
            IN  IF r.ok
                THEN /\ pc' = [pc EXCEPT ![t] = IF r.client.nil THEN "panic" ELSE "peer"]
                     /\ calls' = [calls EXCEPT ![mycall[t]].picked = TRUE,
                                               ![mycall[t]].emptyRing =
                                                   lastSet.peers = <<>>]
                ELSE StartLoad(t, NoErr, TRUE)
    /\ UNCHANGED <<gpeers, m, tkey, mycall, ret, gets, okVal, prior, fin>>

\* getFromPeer returns the bytes: the closure returns a view of them
PeerOkAlsoLoads(t, b) ==
    /\ pc[t] = "peer"
    /\ calls' = [calls EXCEPT ![mycall[t]].val = NewByteView(b),
                              ![mycall[t]].pb = b,
                              ![mycall[t]].loads = @ + 1,
                              ![mycall[t]].err = NoErr,
                              ![mycall[t]].src = "peer",
                              ![mycall[t]].done = TRUE]
    /\ pc' = [pc EXCEPT ![t] = "del"]
    /\ UNCHANGED <<gpeers, m, tkey, mycall, ret, gets, okVal, prior, fin>>
PeerOk(t, b) ==
    /\ pc[t] = "peer"
    /\ calls' = [calls EXCEPT ![mycall[t]].val = NewByteView(b),
                              ![mycall[t]].pb = b,
                              ![mycall[t]].err = NoErr,
                              ![mycall[t]].src = "peer",
                              ![mycall[t]].done = TRUE]
    /\ pc' = [pc EXCEPT ![t] = "del"]
    /\ UNCHANGED <<gpeers, m, tkey, mycall, ret, gets, okVal, prior, fin>>

\* getFromPeer returns an error: it is logged and the loader is invoked
PeerFailSurface(t, e) ==
    /\ pc[t] = "peer"
    /\ calls' = [calls EXCEPT ![mycall[t]].val = ZeroView,
                              ![mycall[t]].err = e,
                              ![mycall[t]].peerErr = e,
                              ![mycall[t]].src = "peer",
                              ![mycall[t]].done = TRUE]
    /\ pc' = [pc EXCEPT ![t] = "del"]
    /\ UNCHANGED <<gpeers, m, tkey, mycall, ret, gets, okVal, prior, fin>>
PeerFail(t, e) ==
    /\ pc[t] = "peer"
    /\ StartLoad(t, e, FALSE)
    /\ UNCHANGED <<gpeers, m, tkey, mycall, ret, gets, okVal, prior, fin>>

\* what the closure returns after the loader returned (bytes, err)
LoaderOutcomeSwallow(b, e) == [val |-> NewByteView(b), err |-> NoErr]
LoaderOutcome(b, e) ==
    IF e # NoErr THEN [val |-> ZeroView, err |-> e]
    ELSE [val |-> NewByteView(b), err |-> NoErr]

\* the loader returns; Do stores the closure's result in the Call and
\* releases the waiters
LoadReturn(t, b, e) ==
    /\ pc[t] = "load"
    /\ LET o == LoaderOutcome(b, e)
       IN  calls' = [calls EXCEPT ![mycall[t]].val = o.val,
                                  ![mycall[t]].err = o.err,
                                  ![mycall[t]].lb = b,
                                  ![mycall[t]].le = e,
                                  ![mycall[t]].src = "loader",
                                  ![mycall[t]].done = TRUE]
    /\ pc' = [pc EXCEPT ![t] = "del"]
    /\ UNCHANGED <<gpeers, m, tkey, mycall, ret, gets, okVal, prior, fin>>

\* Do, the caller that registered the Call: delete it under g.mu; Get returns
DoDeleteKeep(t) ==
    /\ pc[t] = "del"
    /\ m' = m
    /\ Return(t, mycall[t], TRUE)
    /\ UNCHANGED <<gpeers, calls, tkey, mycall, gets, prior, fin>>
DoDelete(t) ==
    /\ pc[t] = "del"
    /\ m' = [k \in DOMAIN m \ {DoKey(t)} |-> m[k]]
    /\ Return(t, mycall[t], TRUE)
    /\ UNCHANGED <<gpeers, calls, tkey, mycall, gets, prior, fin>>

(***************************************************************************)
(* lru.Cache: the inner LRU.  ll is the recency list, most recent first;   *)
(* an element is an entry (key, value).  OnEvicted tells whether a hook is *)
(* set, and log lists the entries the hook was called with.                *)
(***************************************************************************)
\* lru.New(maxBytes, onEvicted)
LruNewHook(maxBytes, onEvicted) ==
    [nil |-> FALSE, maxBytes |-> maxBytes, nbytes |-> 0, ll |-> <<>>,
     OnEvicted |-> onEvicted, log |-> <<>>]
\* lru.New(maxBytes, nil)
LruNew(maxBytes) == LruNewHook(maxBytes, FALSE)
NilLru == [nil |-> TRUE, maxBytes |-> 0, nbytes |-> 0, ll |-> <<>>,
           OnEvicted |-> FALSE, log |-> <<>>]

LruHas(l, key) == \E i \in DOMAIN l.ll : l.ll[i].key = key
LruIndex(l, key) == CHOOSE i \in DOMAIN l.ll : l.ll[i].key = key
Without(s, i) == [j \in 1..(Len(s) - 1) |-> IF j < i THEN s[j] ELSE s[j + 1]]

\* list.MoveToFront of the element of key
MoveToFront(ll, key) ==
    IF \E i \in DOMAIN ll : ll[i].key = key
    THEN LET i == CHOOSE j \in DOMAIN ll : ll[j].key = key
         IN  <<ll[i]>> \o Without(ll, i)
    ELSE ll

\* Cache.RemoveOldest: drop the element at the back of the list, and call
\* the hook with it if one is set
RemoveOldest(l) ==
    IF Len(l.ll) = 0 THEN l
    ELSE LET e == l.ll[Len(l.ll)]
         IN  [l EXCEPT !.ll = SubSeq(@, 1, Len(@) - 1),
                       !.nbytes = @ - (Len(e.key) + Len(e.value.bt)),
                       !.log = IF l.OnEvicted THEN Append(@, e) ELSE @]

RECURSIVE EvictNonZero(_)
EvictNonZero(l) ==
    IF l.maxBytes # 0 /\ l.nbytes > l.maxBytes /\ Len(l.ll) > 0
    THEN EvictNonZero(RemoveOldest(l))
    ELSE l
RECURSIVE EvictKeepLast(_)
EvictKeepLast(l) ==
    IF l.maxBytes > 0 /\ l.nbytes > l.maxBytes /\ Len(l.ll) > 1
    THEN EvictKeepLast(RemoveOldest(l))
    ELSE l
RECURSIVE Evict(_)
\* the loop at the end of Add: while the budget is exceeded, remove the oldest
Evict(l) ==
    IF l.maxBytes > 0 /\ l.nbytes > l.maxBytes /\ Len(l.ll) > 0
    THEN Evict(RemoveOldest(l))
    ELSE l

\* lru.Cache.Add(key, value)
LruAddNoDiff(l, key, value) ==
    Evict(IF LruHas(l, key)
          THEN [l EXCEPT !.ll = <<[key |-> key, value |-> value]>>
                                   \o Tail(MoveToFront(@, key)),
                        !.nbytes = @ + Len(value.bt)]
          ELSE [l EXCEPT !.ll = <<[key |-> key, value |-> value]>> \o @,
                         !.nbytes = @ + Len(key) + Len(value.bt)])
LruAdd(l, key, value) ==
    Evict(IF LruHas(l, key)
          THEN LET old == l.ll[LruIndex(l, key)]
               IN  [l EXCEPT !.ll = <<[key |-> key, value |-> value]>>
                                        \o Tail(MoveToFront(@, key)),
                             !.nbytes = @ + Len(value.bt) - Len(old.value.bt)]
          ELSE [l EXCEPT !.ll = <<[key |-> key, value |-> value]>> \o @,
                         !.nbytes = @ + Len(key) + Len(value.bt)])

\* lru.Cache.Get(key): a miss, or the value with the element moved to the
\* front
LruGetNoMove(l, key) ==
    IF LruHas(l, key)
    THEN [l |-> l, val |-> l.ll[LruIndex(l, key)].value, ok |-> TRUE]
    ELSE [l |-> l, val |-> ZeroView, ok |-> FALSE]
LruGet(l, key) ==
    IF LruHas(l, key)
    THEN [l |-> [l EXCEPT !.ll = MoveToFront(@, key)],
          val |-> l.ll[LruIndex(l, key)].value, ok |-> TRUE]
    ELSE [l |-> l, val |-> ZeroView, ok |-> FALSE]

\* the lists a list can be left as by two moves made at the same time: a
\* node is one node, so none is repeated, but nodes may be unlinked and the
\* rest left in any order
RaceOutcomes(ll) ==
    {q \in SeqsUpTo(Range(ll), Len(ll)) : \A i, j \in DOMAIN q : q[i] = q[j] => i = j}

(***************************************************************************)
(* An LRU used on its own, by one goroutine: every call is one step.  The  *)
(* LRU is the variable lru_cache; it has a hook, so that log tells what    *)
(* was evicted.                                                            *)
(***************************************************************************)
lruVars == <<touched, lastOp>>

LruKeys == {<<75>>, <<76>>, <<77>>}
LruViews == {[bt |-> <<1>>], [bt |-> <<2, 2>>]}
NoOp == [op |-> "none", key |-> EmptyString, value |-> [bt |-> <<>>], ok |-> FALSE]

InitLruHistory ==
    /\ touched = [k \in LruKeys |-> 0]
    /\ lastOp = NoOp

\* len(key) + value.Len()
EntryBytes(key, value) == Len(key) + Len(value.bt)

\* c.Add(key, value)
LruOpAdd(key, value) ==
    /\ storeOps < MaxLruOps
    /\ storeOps' = storeOps + 1
    /\ lru_cache' = LruAdd(lru_cache, key, value)
    /\ added' = [added EXCEPT ![key] = [n |-> @.n + 1, val |-> value]]
    /\ touched' = [touched EXCEPT ![key] = storeOps + 1]
    /\ lastOp' = [op |-> "Add", key |-> key, value |-> value, ok |-> TRUE]
    /\ UNCHANGED <<Cache_bytes, writer, readers, spc, skey, sval, torn, sret>>

\* c.Get(key)
LruOpGet(key) ==
    /\ storeOps < MaxLruOps
    /\ storeOps' = storeOps + 1
    /\ LET r == LruGet(lru_cache, key)
       IN  /\ lru_cache' = r.l
           /\ touched' = IF r.ok THEN [touched EXCEPT ![key] = storeOps + 1]
                         ELSE touched
           /\ lastOp' = [op |-> "Get", key |-> key, value |-> r.val, ok |-> r.ok]
    /\ UNCHANGED <<Cache_bytes, writer, readers, spc, skey, sval, torn, sret, added>>

\* c.RemoveOldest()
LruOpRemoveOldest ==
    /\ storeOps < MaxLruOps
    /\ storeOps' = storeOps + 1
    /\ lru_cache' = RemoveOldest(lru_cache)
    /\ lastOp' = [NoOp EXCEPT !.op = "RemoveOldest"]
    /\ UNCHANGED <<Cache_bytes, writer, readers, spc, skey, sval, torn, sret,
                   added, touched>>

(***************************************************************************)
(* Cache: sync.RWMutex around the LRU.                                     *)
(***************************************************************************)
storeVars == <<Cache_bytes, lru_cache, writer, readers, spc, skey, sval, torn,
               sret, storeOps, added>>

StoreThreads == 1..NumStoreThreads
StoreKeys == {<<75>>, <<76>>}
StoreViews == {NewByteView(<<1>>), NewByteView(<<2, 2>>)}
NoGet == [done |-> FALSE, key |-> EmptyString, val |-> ZeroView, ok |-> FALSE]
\* no Add of the key has returned yet
NoAdd == [n |-> 0, val |-> ZeroView]

\* &Cache{Cache_bytes: n}
InitStore(budgets) ==
    /\ Cache_bytes \in budgets
    /\ lru_cache = NilLru
    /\ writer = 0
    /\ readers = {}
    /\ spc = [t \in StoreThreads |-> "idle"]
    /\ skey = [t \in StoreThreads |-> EmptyString]
    /\ sval = [t \in StoreThreads |-> ZeroView]
    /\ torn = [t \in StoreThreads |-> FALSE]
    /\ sret = [t \in StoreThreads |-> NoGet]
    /\ storeOps = 0
    /\ added = [k \in StoreKeys |-> NoAdd]

\* Cache.Add: c.mu.Lock()
AddLock(t, k, v) ==
    /\ spc[t] = "idle"
    /\ storeOps < MaxStoreOps
    /\ writer = 0 /\ readers = {}
    /\ writer' = t
    /\ spc' = [spc EXCEPT ![t] = "add"]
    /\ skey' = [skey EXCEPT ![t] = k]
    /\ sval' = [sval EXCEPT ![t] = v]
    /\ storeOps' = storeOps + 1
    /\ UNCHANGED <<Cache_bytes, lru_cache, readers, torn, sret, added>>

\* Cache.Add: create the LRU if there is none, add, and unlock on return
AddBodyAlwaysNew(t) ==
    /\ spc[t] = "add"
    /\ lru_cache' = LruAdd(LruNew(Cache_bytes), skey[t], sval[t])
    /\ added' = [added EXCEPT ![skey[t]] = [n |-> @.n + 1, val |-> sval[t]]]
    /\ writer' = 0
    /\ spc' = [spc EXCEPT ![t] = "idle"]
    /\ UNCHANGED <<Cache_bytes, readers, skey, sval, torn, sret, storeOps>>
AddBody(t) ==
    /\ spc[t] = "add"
    /\ lru_cache' = LruAdd(IF lru_cache.nil THEN LruNew(Cache_bytes) ELSE lru_cache,
                           skey[t], sval[t])
    /\ added' = [added EXCEPT ![skey[t]] = [n |-> @.n + 1, val |-> sval[t]]]
    /\ writer' = 0
    /\ spc' = [spc EXCEPT ![t] = "idle"]
    /\ UNCHANGED <<Cache_bytes, readers, skey, sval, torn, sret, storeOps>>

\* Cache.Get: c.mu.RLock()
GetRLock(t, k) ==
    /\ spc[t] = "idle"
    /\ storeOps < MaxStoreOps
    /\ writer = 0
    /\ readers' = readers \cup {t}
    /\ spc' = [spc EXCEPT ![t] = "get"]
    /\ skey' = [skey EXCEPT ![t] = k]
    /\ storeOps' = storeOps + 1
    /\ UNCHANGED <<Cache_bytes, lru_cache, writer, sval, torn, sret, added>>

\* Cache.Get on a nil LRU, or lru.Get of a key that is absent: a miss
GetMiss(t) ==
    /\ spc[t] = "get"
    /\ lru_cache.nil \/ ~LruHas(lru_cache, skey[t])
    /\ sret' = [sret EXCEPT ![t] = [done |-> TRUE, key |-> skey[t],
                                    val |-> ZeroView, ok |-> FALSE]]
    /\ readers' = readers \ {t}
    /\ spc' = [spc EXCEPT ![t] = "idle"]
    /\ UNCHANGED <<Cache_bytes, lru_cache, writer, skey, sval, torn, storeOps, added>>

\* lru.Get of a key that is present: the move of its element to the front
\* begins
GetHitFront(t) ==
    /\ spc[t] = "get"
    /\ ~lru_cache.nil /\ LruHas(lru_cache, skey[t])
    /\ spc' = [spc EXCEPT ![t] = "move"]
    /\ sval' = [sval EXCEPT ![t] = lru_cache.ll[1].value]
    /\ torn' = [u \in StoreThreads |->
                   IF u = t THEN \E w \in StoreThreads \ {t} : spc[w] = "move"
                   ELSE torn[u] \/ spc[u] = "move"]
    /\ UNCHANGED <<Cache_bytes, lru_cache, writer, readers, skey, sret, storeOps,
                   added>>
GetHit(t) ==
    /\ spc[t] = "get"
    /\ ~lru_cache.nil /\ LruHas(lru_cache, skey[t])
    /\ spc' = [spc EXCEPT ![t] = "move"]
    /\ sval' = [sval EXCEPT ![t] = lru_cache.ll[LruIndex(lru_cache, skey[t])].value]
    /\ torn' = [u \in StoreThreads |->
                   IF u = t THEN \E w \in StoreThreads \ {t} : spc[w] = "move"
                   ELSE torn[u] \/ spc[u] = "move"]
    /\ UNCHANGED <<Cache_bytes, lru_cache, writer, readers, skey, sret, storeOps,
                   added>>

\* lru.Get: the move ends, the value is returned, Cache.Get unlocks
GetMove(t) ==
    /\ spc[t] = "move"
    /\ IF torn[t]
       THEN \E ll \in RaceOutcomes(lru_cache.ll) :
                lru_cache' = [lru_cache EXCEPT !.ll = ll]
       ELSE lru_cache' = [lru_cache EXCEPT !.ll = MoveToFront(@, skey[t])]
    /\ sret' = [sret EXCEPT ![t] = [done |-> TRUE, key |-> skey[t],
                                    val |-> sval[t], ok |-> TRUE]]
    /\ torn' = [torn EXCEPT ![t] = FALSE]
    /\ readers' = readers \ {t}
    /\ spc' = [spc EXCEPT ![t] = "idle"]
    /\ UNCHANGED <<Cache_bytes, writer, skey, sval, storeOps, added>>

(***************************************************************************)
(* The registry: NewGroup, GetGroup; and Group.RegisterPeers.              *)
(***************************************************************************)
regVars == <<groups, objs, rmuW, rmuR, rpc, rarg, rres, regOps>>

RegThreads == 1..NumRegThreads
\* group names
Names == {<<97>>, <<98>>}
\* the peer-pickers handed to RegisterPeers; 0 is nil
Pickers == {1, 2}
\* a nil *Group
NilGroup == 0

NoArg == [name |-> EmptyString, f |-> FALSE, g |-> NilGroup, picker |-> 0]
NoRes == [op |-> "none", name |-> EmptyString, g |-> NilGroup, panic |-> FALSE]

\* the package variables: an unlocked mutex and an empty map
InitRegistry ==
    /\ groups = <<>>
    /\ objs = <<>>
    /\ rmuW = 0
    /\ rmuR = {}
    /\ rpc = [t \in RegThreads |-> "idle"]
    /\ rarg = [t \in RegThreads |-> NoArg]
    /\ rres = [t \in RegThreads |-> NoRes]
    /\ regOps = 0

\* NewGroup(name, cache_bytes, f): panic on a nil f, else mu.Lock()
NewGroupNoNilTest(t, name, f) ==
    /\ rpc[t] = "idle"
    /\ regOps < MaxRegOps
    /\ regOps' = regOps + 1
    /\ rmuW = 0 /\ rmuR = {}
    /\ rmuW' = t
    /\ rpc' = [rpc EXCEPT ![t] = "new"]
    /\ rarg' = [rarg EXCEPT ![t] = [NoArg EXCEPT !.name = name, !.f = f]]
    /\ UNCHANGED <<groups, objs, rmuR, rres>>
NewGroup(t, name, f) ==
    /\ rpc[t] = "idle"
    /\ regOps < MaxRegOps
    /\ regOps' = regOps + 1
    /\ IF ~f
       THEN /\ rres' = [rres EXCEPT ![t] = [NoRes EXCEPT !.op = "NewGroup",
                                                         !.name = name,
                                                         !.panic = TRUE]]
            /\ UNCHANGED <<groups, objs, rmuW, rmuR, rpc, rarg>>
       ELSE /\ rmuW = 0 /\ rmuR = {}
            /\ rmuW' = t
            /\ rpc' = [rpc EXCEPT ![t] = "new"]
            /\ rarg' = [rarg EXCEPT ![t] = [NoArg EXCEPT !.name = name, !.f = f]]
            /\ UNCHANGED <<groups, objs, rmuR, rres>>

\* groups[name] = g
InstallKeepFirst(name, g) == IF name \in DOMAIN groups THEN groups ELSE MapPut(groups, name, g)
Install(name, g) == MapPut(groups, name, g)

\* NewGroup, under mu: build the Group, install it, unlock and return it
NewGroupBody(t) ==
    /\ rpc[t] = "new"
    /\ objs' = Append(objs, [name |-> rarg[t].name, f |-> rarg[t].f,
                             peers |-> 0, assigns |-> 0])
    /\ groups' = Install(rarg[t].name, Len(objs) + 1)
    /\ rmuW' = 0
    /\ rres' = [rres EXCEPT ![t] = [NoRes EXCEPT !.op = "NewGroup",
                                                  !.name = rarg[t].name,
                                                  !.g = Len(objs) + 1]]
    /\ rpc' = [rpc EXCEPT ![t] = "idle"]
    /\ UNCHANGED <<rmuR, rarg, regOps>>

\* GetGroup(name): mu.RLock()
GetGroupRLock(t, name) ==
    /\ rpc[t] = "idle"
    /\ regOps < MaxRegOps
    /\ regOps' = regOps + 1
    /\ rmuW = 0
    /\ rmuR' = rmuR \cup {t}
    /\ rpc' = [rpc EXCEPT ![t] = "gg"]
    /\ rarg' = [rarg EXCEPT ![t] = [NoArg EXCEPT !.name = name]]
    /\ UNCHANGED <<groups, objs, rmuW, rres>>

\* groups[name]: a missing entry reads as nil
Lookup(name) == IF name \in DOMAIN groups THEN groups[name] ELSE NilGroup

\* GetGroup: read the map, mu.RUnlock(), return
GetGroupBody(t) ==
    /\ rpc[t] = "gg"
    /\ rres' = [rres EXCEPT ![t] = [NoRes EXCEPT !.op = "GetGroup",
                                                  !.name = rarg[t].name,
                                                  !.g = Lookup(rarg[t].name)]]
    /\ rmuR' = rmuR \ {t}
    /\ rpc' = [rpc EXCEPT ![t] = "idle"]
    /\ UNCHANGED <<groups, objs, rmuW, rarg, regOps>>

\* g.RegisterPeers(picker): the test of g.peers; no lock is taken
RegisterPeersTest(t, g, picker) ==
    /\ rpc[t] = "idle"
    /\ regOps < MaxRegOps
    /\ regOps' = regOps + 1
    /\ rarg' = [rarg EXCEPT ![t] = [NoArg EXCEPT !.g = g, !.picker = picker]]
    /\ IF objs[g].peers # 0
       THEN /\ rres' = [rres EXCEPT ![t] = [NoRes EXCEPT !.op = "RegisterPeers",
                                                         !.g = g, !.panic = TRUE]]
            /\ UNCHANGED rpc
       ELSE /\ rpc' = [rpc EXCEPT ![t] = "reg"]
            /\ UNCHANGED rres
    /\ UNCHANGED <<groups, objs, rmuW, rmuR>>

\* g.RegisterPeers: g.peers = peers
RegisterPeersAssign(t) ==
    /\ rpc[t] = "reg"
    /\ objs' = [objs EXCEPT ![rarg[t].g].peers = rarg[t].picker,
                            ![rarg[t].g].assigns = @ + 1]
    /\ rres' = [rres EXCEPT ![t] = [NoRes EXCEPT !.op = "RegisterPeers",
                                                  !.g = rarg[t].g]]
    /\ rpc' = [rpc EXCEPT ![t] = "idle"]
    /\ UNCHANGED <<groups, rmuW, rmuR, rarg, regOps>>

(***************************************************************************)
(* ByteView over byte slices that can share memory.  A []byte is a         *)
(* reference to a backing array: heap[a] is the array of the slice a, and  *)
(* two slices with the same a see each other's writes.                     *)
(***************************************************************************)
viewVars == <<heap, caller, view, orig, got, vres, muts, viewOps>>

ByteVals == {1, 2}
NoView == [made |-> FALSE, bt |-> 0]
NoViewRes == [op |-> "none", bytes |-> <<>>, n |-> 0, muts |-> 0]

\* the caller holds one buffer b; no view is made yet
InitView(bufs) ==
    /\ heap \in {<<b>> : b \in bufs}
    /\ caller = 1
    /\ view = NoView
    /\ orig = <<>>
    /\ got = {}
    /\ vres = NoViewRes
    /\ muts = 0
    /\ viewOps = 0

\* a slice that shares the array of b: no copy is made
cloneBytesAlias(h, b) == [heap |-> h, c |-> b]

\* c := make([]byte, len(b)); copy(c, b); return c
cloneBytes(h, b) == [heap |-> Append(h, h[b]), c |-> Len(h) + 1]

\* v := NewByteView(b)
NewByteViewCall ==
    /\ ~view.made
    /\ LET r == cloneBytes(heap, caller)
       IN  /\ heap' = r.heap
           /\ view' = [made |-> TRUE, bt |-> r.c]
    /\ orig' = heap[caller]
    /\ UNCHANGED <<caller, got, vres, muts, viewOps>>

\* v.Len()
ViewLen ==
    /\ view.made /\ viewOps < MaxViewOps
    /\ viewOps' = viewOps + 1
    /\ vres' = [NoViewRes EXCEPT !.op = "Len", !.n = Len(heap[view.bt]), !.muts = muts]
    /\ UNCHANGED <<heap, caller, view, orig, got, muts>>

\* v.ByteSlice(): c := make([]byte, b.Len()); copy(c, b.bt); return c
ViewByteSlice ==
    /\ view.made /\ viewOps < MaxViewOps
    /\ viewOps' = viewOps + 1
    /\ heap' = Append(heap, heap[view.bt])
    /\ got' = got \cup {Len(heap) + 1}
    /\ vres' = [NoViewRes EXCEPT !.op = "ByteSlice", !.bytes = heap[view.bt],
                                  !.muts = muts]
    /\ UNCHANGED <<caller, view, orig, muts>>

\* v.String(): string(b.bt), a string of the bytes as they are now
ViewString ==
    /\ view.made /\ viewOps < MaxViewOps
    /\ viewOps' = viewOps + 1
    /\ vres' = [NoViewRes EXCEPT !.op = "String", !.bytes = heap[view.bt],
                                  !.muts = muts]
    /\ UNCHANGED <<heap, caller, view, orig, got, muts>>

\* the caller writes x at index i of a slice it holds: its own buffer b, or
\* a slice that ByteSlice returned
Mutate(a, i, x) ==
    /\ view.made /\ viewOps < MaxViewOps
    /\ a \in {caller} \cup got
    /\ i \in DOMAIN heap[a]
    /\ heap[a][i] # x
    /\ viewOps' = viewOps + 1
    /\ heap' = [heap EXCEPT ![a][i] = x]
    /\ muts' = muts + 1
    /\ UNCHANGED <<caller, view, orig, got, vres>>

(***************************************************************************)
(* HttpAddr.Serve: the handler of GET {Path}{group}/{key}.                 *)
(***************************************************************************)
\* the goroutine that runs Serve
Server == 1
httpVars == <<hpc, hreq, resp, reqs, codes>>

\* strings.HasPrefix(s, prefix)
HasPrefix(s, prefix) ==
    Len(s) >= Len(prefix) /\ SubSeq(s, 1, Len(prefix)) = prefix

\* strings.SplitN(s, "/", 2): s alone when it has no "/", else what is
\* before the first "/" and all that is after it
SplitN2(s) ==
    LET I == {i \in DOMAIN s : s[i] = 47}
    IN  IF I = {} THEN <<s>>
        ELSE LET i == CHOOSE j \in I : \A l \in I : j <= l
             IN  <<SubSeq(s, 1, i - 1), SubSeq(s, i + 1, Len(s))>>

\* proto.Marshal(&pb.Response{Value: b}): field 1 as tag, length and bytes;
\* an empty value is left out
Marshal(b) == IF b = <<>> THEN <<>> ELSE <<10, Len(b)>> \o b

\* what follows the base path in the requests: "", "a", "a/K", "a/L", "b/K"
\* and "b/"
Rests == {<<>>, <<97>>, <<97, 47, 75>>, <<97, 47, 76>>, <<98, 47, 75>>, <<98, 47>>}
\* the paths requested: the base path and a rest, and "/x"
Paths == {defaultBasePath \o r : r \in Rests} \cup {<<47, 120>>}

NoReq == [path |-> EmptyString, group |-> EmptyString, key |-> EmptyString]
\* what the handler wrote: status code, Content-Type and body, and of the
\* request: its path, whether Serve panicked, whether it called Group.Get
\* and the error Group.Get returned
NoResp == [code |-> 0, ctype |-> "", body |-> <<>>, path |-> EmptyString,
           panic |-> FALSE, get |-> FALSE, err |-> NoErr]

\* c.String(code, text)
String(code, text) == [NoResp EXCEPT !.code = code, !.ctype = "text/plain",
                                     !.body = text]
\* c.Data(code, ctype, body), after c.Header("Content-Type", ctype)
Data(code, ctype, body) == [NoResp EXCEPT !.code = code, !.ctype = ctype,
                                          !.body = body]

InitHttp ==
    /\ hpc = [t \in {Server} |-> "idle"]
    /\ hreq = [t \in {Server} |-> NoReq]
    /\ resp = [t \in {Server} |-> NoResp]
    /\ reqs = 0
    /\ codes = {}

\* Serve, up to the 400: the prefix test and the split of the rest
ServeSplit400Never(t, path) ==
    /\ hpc[t] = "idle" /\ pc[t] = "idle"
    /\ reqs < MaxReqs
    /\ reqs' = reqs + 1
    /\ IF ~HasPrefix(path, defaultBasePath)
       THEN /\ resp' = [resp EXCEPT ![t] = [NoResp EXCEPT !.path = path, !.panic = TRUE]]
            /\ UNCHANGED <<hpc, hreq, codes>>
       ELSE LET parts == SplitN2(SubSeq(path, Len(defaultBasePath) + 1, Len(path)))
            IN  /\ hreq' = [hreq EXCEPT ![t] =
                              [path |-> path, group |-> parts[1],
                               key |-> IF Len(parts) = 2 THEN parts[2] ELSE EmptyString]]
                /\ hpc' = [hpc EXCEPT ![t] = "lookup"]
                /\ resp' = [resp EXCEPT ![t] = [NoResp EXCEPT !.path = path]]
                /\ UNCHANGED codes
ServeSplit(t, path) ==
    /\ hpc[t] = "idle" /\ pc[t] = "idle"
    /\ reqs < MaxReqs
    /\ reqs' = reqs + 1
    /\ IF ~HasPrefix(path, defaultBasePath)
       THEN /\ resp' = [resp EXCEPT ![t] = [NoResp EXCEPT !.path = path, !.panic = TRUE]]
            /\ UNCHANGED <<hpc, hreq, codes>>
       ELSE LET parts == SplitN2(SubSeq(path, Len(defaultBasePath) + 1, Len(path)))
            IN  IF Len(parts) # 2
                THEN /\ resp' = [resp EXCEPT ![t] =
                                   [String(400, "Bad Request") EXCEPT !.path = path]]
                     /\ codes' = codes \cup {400}
                     /\ UNCHANGED <<hpc, hreq>>
                ELSE /\ hreq' = [hreq EXCEPT ![t] =
                                   [path |-> path, group |-> parts[1], key |-> parts[2]]]
                     /\ hpc' = [hpc EXCEPT ![t] = "lookup"]
                     /\ resp' = [resp EXCEPT ![t] = [NoResp EXCEPT !.path = path]]
                     /\ UNCHANGED codes

\* Serve: group.GetGroup(groupName) under the read lock of the registry,
\* then the 404, or the call of group.Get(key)
ServeGetGroup(t) ==
    /\ hpc[t] = "lookup"
    /\ rmuW = 0
    /\ IF Lookup(hreq[t].group) = NilGroup
       THEN /\ resp' = [resp EXCEPT ![t] =
                          [String(404, "Group Not Found") EXCEPT !.path = hreq[t].path]]
            /\ hpc' = [hpc EXCEPT ![t] = "idle"]
            /\ codes' = codes \cup {404}
            /\ UNCHANGED groupVars
       ELSE /\ GetEnter(t, hreq[t].key)
            /\ resp' = [resp EXCEPT ![t].get = TRUE]
            /\ hpc' = [hpc EXCEPT ![t] = "get"]
            /\ UNCHANGED codes
    /\ UNCHANGED <<hreq, reqs>>

\* Serve, after group.Get returned: the 500 of its error, else the body is
\* marshalled (marshalled: proto.Marshal returned no error) and the 200 or
\* the 500 is written
ServeWrite(t, marshalled) ==
    /\ hpc[t] = "get" /\ pc[t] = "idle"
    /\ resp' = [resp EXCEPT ![t] =
                  IF ret[t].err # NoErr
                  THEN [String(500, ret[t].err) EXCEPT !.path = hreq[t].path,
                            !.get = TRUE, !.err = ret[t].err]
                  ELSE IF ~marshalled
                  THEN [String(500, "marshal") EXCEPT !.path = hreq[t].path,
                            !.get = TRUE]
                  ELSE [Data(200, "application/octet-stream", Marshal(ret[t].val.bt))
                            EXCEPT !.path = hreq[t].path, !.get = TRUE]]
    /\ hpc' = [hpc EXCEPT ![t] = "idle"]
    /\ codes' = codes \cup {resp'[t].code}
    /\ UNCHANGED <<hreq, reqs>>

(***************************************************************************)
(* The locks a goroutine holds while it runs Group.Get: the mutex of the   *)
(* single-flight group ("sf") and the mutex of the router ("router").      *)
(* Get calls nothing that takes the lock of the registry or of the store.  *)
(* Each Lock() is a step of its own, taken when no goroutine holds the     *)
(* mutex; the steps of Get above are the code between Lock and Unlock.     *)
(***************************************************************************)
lockVars == <<held>>

LockNames == {"registry", "router", "store", "sf"}

InitLocks == held = [t \in Threads |-> {}]

\* no goroutine holds the mutex l
Free(l) == \A u \in Threads : l \notin held[u]

\* Do: g.mu.Lock(), before the lookup and before the delete
SfLock(t) ==
    /\ pc[t] \in {"do", "del"}
    /\ "sf" \notin held[t]
    /\ Free("sf")
    /\ held' = [held EXCEPT ![t] = @ \cup {"sf"}]
    /\ UNCHANGED groupVars

\* Do: g.mu.Unlock(), after the lookup and after the delete
SfUnlock(t) == held[t] \ {"sf"}

\* PickPeer: p.mu.Lock()
PickLock(t) ==
    /\ pc[t] = "fn" /\ gpeers
    /\ "router" \notin held[t]
    /\ Free("router")
    /\ held' = [held EXCEPT ![t] = @ \cup {"router"}]
    /\ UNCHANGED groupVars

\* PickPeer: the deferred p.mu.Unlock(), run when PickPeer returns or panics
PickUnlockNever(t) == held[t]
PickUnlock(t) == held[t] \ {"router"}

\* Do, under g.mu: the lookup, then Unlock
LockedLookup(t) ==
    /\ "sf" \in held[t]
    /\ DoLookup(t)
    /\ held' = [held EXCEPT ![t] = SfUnlock(t)]

\* the closure starts; with a picker, PickPeer runs under p.mu
LockedFnStart(t) ==
    /\ gpeers => "router" \in held[t]
    /\ FnStart(t)
    /\ held' = [held EXCEPT ![t] = PickUnlock(t)]

\* Do, under g.mu: the delete, then Unlock; Get returns
LockedDelete(t) ==
    /\ "sf" \in held[t]
    /\ DoDelete(t)
    /\ held' = [held EXCEPT ![t] = SfUnlock(t)]

\* Set, by another goroutine: the whole of it runs under p.mu
LockedSet(P) == Free("router") /\ Set(P)

\* PickPeer, called by another goroutine: the whole of it runs under p.mu
LockedPickPeer(key) == Free("router") /\ PickPeerCall(key)

(***************************************************************************)
(* A fleet of nodes, each with its own router and the group "a", all Set   *)
(* with one peer list.  A Get is followed from node to node: the peer      *)
(* fetch of HttpClient.Get is a request that the Serve of the peer takes.  *)
(***************************************************************************)
fleetVars == <<flist, trail, fdone>>

\* the keys asked of the fleet: "K", " ", "K L", "+" and "a/b"
FleetKeys == {<<75>>, <<32>>, <<75, 32, 76>>, <<43>>, <<97, 47, 98>>}
\* the name of the group
FleetGroup == <<97>>

\* peer lists without a repeated node
PeerLists == {P \in SeqsUpTo(PeerIds, MaxPeers) : \A i, j \in DOMAIN P : P[i] = P[j] => i = j}

\* no Get was made: the fleet is not in use
InitFleet(lists) ==
    /\ flist \in lists
    /\ trail = <<>>
    /\ fdone = FALSE

\* the bytes url.QueryEscape leaves as they are: letters, digits, - _ . ~
Unreserved(c) == c \in (48..57) \cup (65..90) \cup (97..122) \cup {45, 95, 46, 126}
\* "0123456789ABCDEF"[n]
HexDigit(n) == IF n < 10 THEN 48 + n ELSE 55 + n
\* the value of a hex digit
HexVal(d) == IF d \in 48..57 THEN d - 48 ELSE IF d \in 65..70 THEN d - 55 ELSE d - 87
IsHex(d) == d \in (48..57) \cup (65..70) \cup (97..102)

RECURSIVE QueryEscape(_)
\* url.QueryEscape(s): a space becomes "+", a byte that is not unreserved
\* becomes %XX
QueryEscape(s) ==
    IF s = <<>> THEN <<>>
    ELSE LET c == Head(s)
         IN  (IF c = 32 THEN <<43>>
              ELSE IF Unreserved(c) THEN <<c>>
              ELSE <<37, HexDigit(c \div 16), HexDigit(c % 16)>>) \o QueryEscape(Tail(s))

RECURSIVE PathUnescape(_)
\* the decoding of a request path into URL.Path: %XX becomes the byte, and
\* every other byte, "+" too, stays
PathUnescape(s) ==
    IF s = <<>> THEN <<>>
    ELSE IF Head(s) = 37 /\ Len(s) >= 3 /\ IsHex(s[2]) /\ IsHex(s[3])
         THEN <<HexVal(s[2]) * 16 + HexVal(s[3])>> \o PathUnescape(SubSeq(s, 4, Len(s)))
         ELSE <<Head(s)>> \o PathUnescape(Tail(s))

\* HttpClient.Get: the URL requested, "%v%v/%v" of BaseURL and the escaped
\* group and key
RequestURL(BaseURL, group, key) ==
    BaseURL \o QueryEscape(group) \o <<47>> \o QueryEscape(key)

\* the URL.Path the server of the peer sees for a URL that begins with the
\* identifier of the peer
ServerPath(peer, u) == PathUnescape(SubSeq(u, Len(peer) + 1, Len(u)))

\* PickPeer(key) on the router of the node host, Set with the list P
PickPeerAt(host, P, key) ==
    LET peer == MapGet(SetRing(P), key)
    IN  IF peer # EmptyString /\ peer # host
        THEN [ok |-> TRUE,
              client |-> IF peer \in DOMAIN SetClients(P) THEN SetClients(P)[peer]
                         ELSE NilClient,
              owner |-> peer]
        ELSE [ok |-> FALSE, client |-> NilClient, owner |-> peer]

\* Group.Get(k) is called on the group of node n
FleetGet(n, k) ==
    /\ trail = <<>>
    /\ trail' = <<[node |-> n, group |-> FleetGroup, key |-> k]>>
    /\ UNCHANGED <<flist, fdone>>

\* the node that has the request picks a remote peer and fetches from it:
\* the Serve of the peer splits the path and calls Get on its own group
FleetForward ==
    /\ trail # <<>> /\ ~fdone
    /\ Len(trail) <= MaxHops
    /\ LET e == trail[Len(trail)]
           r == PickPeerAt(e.node, flist, e.key)
           path == ServerPath(r.owner, RequestURL(r.client.BaseURL, e.group, e.key))
           parts == SplitN2(SubSeq(path, Len(defaultBasePath) + 1, Len(path)))
       IN  /\ r.ok
           /\ HasPrefix(path, defaultBasePath)
           /\ Len(parts) = 2
           /\ trail' = Append(trail, [node |-> r.owner, group |-> parts[1],
                                      key |-> parts[2]])
    /\ UNCHANGED <<flist, fdone>>

\* the node that has the request picks no peer: its own loader is invoked
FleetLoad ==
    /\ trail # <<>> /\ ~fdone
    /\ LET e == trail[Len(trail)]
       IN  ~PickPeerAt(e.node, flist, e.key).ok
    /\ fdone' = TRUE
    /\ UNCHANGED <<flist, trail>>

\* the variables of the parts that only some specifications run
auxVars == <<viewVars, httpVars, lockVars, fleetVars>>
InitAux == InitView({<<>>}) /\ InitHttp /\ InitLocks /\ InitFleet({<<>>})

(***************************************************************************)
(* Specifications.                                                         *)
(***************************************************************************)
vars == <<routerVars, groupVars, storeVars, regVars, lruVars, auxVars>>

\* the budget an LRU is given: negative or 0 (no limit), or a limit
Budgets == (-1)..MaxBudget
\* the budgets of the stores that goroutines share: no limit, and a limit
\* that two entries can exceed
StoreBudgets == {0, MaxBudget}

\* the peer lists the router of the group is Set with: none, the own host
\* alone, a remote peer alone, the own host and a remote peer
GroupPeerLists == {<<>>, <<Host>>, <<<<66>>>>, <<Host, <<66>>>>}

\* two peer lists of a node in service: the own host and a peer, which gives
\* every key of the group to the own host, and a peer alone, which owns all
ServePeerLists == {<<Host, <<66>>>>, <<<<66>>>>}

\* a group and its router, serving Gets while peers are registered and set
Init ==
    /\ InitRouter({0}) /\ InitGroup /\ InitStore({MaxBudget}) /\ InitRegistry
    /\ InitLruHistory /\ InitAux

Next ==
    \/ RegisterPeers /\ UNCHANGED <<routerVars, storeVars, regVars, lruVars, auxVars>>
    \/ \E P \in GroupPeerLists :
          setCount < MaxSets /\ Set(P) /\ UNCHANGED <<groupVars, storeVars, regVars, lruVars, auxVars>>
    \/ \E t \in Threads :
          /\ \/ \E k \in GroupKeys : GetEnter(t, k)
             \/ DoLookup(t)
             \/ DoWait(t)
             \/ FnStart(t)
             \/ \E b \in Values : PeerOk(t, b)
             \/ \E e \in PeerErrs : PeerFail(t, e)
             \/ \E b \in Values : LoadReturn(t, b, NoErr)
             \/ \E e \in LoaderErrs : LoadReturn(t, <<>>, e)
             \/ DoDelete(t)
          /\ UNCHANGED <<routerVars, storeVars, regVars, lruVars, auxVars>>

Spec == Init /\ [][Next]_vars

\* a group that was set up before it serves: without a picker, or with the
\* router registered after one Set; goroutines then call Get
InitServe ==
    /\ InitStore({MaxBudget})
    /\ InitRegistry
    /\ InitLruHistory /\ InitAux
    /\ hashFn = 0
    /\ picked = NoPick
    /\ earlier = {}
    /\ m = <<>>
    /\ calls = <<>>
    /\ pc = [t \in Threads |-> "idle"]
    /\ tkey = [t \in Threads |-> EmptyString]
    /\ mycall = [t \in Threads |-> 0]
    /\ ret = [t \in Threads |-> NoRet]
    /\ gets = 0
    /\ okVal = [k \in GroupKeys |-> NoVal]
    /\ prior = [t \in Threads |-> NoVal]
    /\ fin = [t \in Threads |-> {}]
    /\ \/ /\ gpeers = FALSE
          /\ peers = NilMap
          /\ HttpClients = <<>>
          /\ lastSet = [done |-> FALSE, peers |-> <<>>]
          /\ setCount = 0
       \/ \E P \in GroupPeerLists :
             /\ gpeers = TRUE
             /\ peers = SetRing(P)
             /\ HttpClients = SetClients(P)
             /\ lastSet = [done |-> TRUE, peers |-> P]
             /\ setCount = 1

NextServe ==
    \E t \in Threads :
       /\ \/ \E k \in GroupKeys : GetEnter(t, k)
          \/ DoLookup(t)
          \/ DoWait(t)
          \/ FnStart(t)
          \/ \E b \in Values : PeerOk(t, b)
          \/ \E e \in PeerErrs : PeerFail(t, e)
          \/ \E b \in Values : LoadReturn(t, b, NoErr)
          \/ \E e \in LoaderErrs : LoadReturn(t, <<>>, e)
          \/ DoDelete(t)
       /\ UNCHANGED <<routerVars, storeVars, regVars, lruVars, auxVars>>

SpecServe == InitServe /\ [][NextServe]_vars

\* a router alone: any sequence of Set and PickPeer calls
InitRouterOnly ==
    /\ InitRouter(0..MaxSalt) /\ InitGroup /\ InitStore({MaxBudget}) /\ InitRegistry
    /\ InitLruHistory /\ InitAux

NextRouter ==
    \/ \E P \in SeqsUpTo(PeerIds, MaxPeers) :
          setCount < MaxSets + 1 /\ Set(P) /\ UNCHANGED <<groupVars, storeVars, regVars, lruVars, auxVars>>
    \/ \E k \in Keys : PickPeerCall(k) /\ UNCHANGED <<groupVars, storeVars, regVars, lruVars, auxVars>>

SpecRouter == InitRouterOnly /\ [][NextRouter]_vars

\* a store alone: goroutines calling Add and Get on it
InitStoreOnly ==
    /\ InitRouter({0}) /\ InitGroup /\ InitStore(StoreBudgets) /\ InitRegistry
    /\ InitLruHistory /\ InitAux

NextStore ==
    \E t \in StoreThreads :
       /\ \/ \E k \in StoreKeys, v \in StoreViews : AddLock(t, k, v)
          \/ AddBody(t)
          \/ \E k \in StoreKeys : GetRLock(t, k)
          \/ GetMiss(t)
          \/ GetHit(t)
          \/ GetMove(t)
       /\ UNCHANGED <<routerVars, groupVars, regVars, lruVars, auxVars>>

SpecStore == InitStoreOnly /\ [][NextStore]_vars

\* the registry alone: goroutines calling NewGroup, GetGroup and, on the
\* groups made, RegisterPeers
InitRegistryOnly ==
    /\ InitRouter({0}) /\ InitGroup /\ InitStore({MaxBudget}) /\ InitRegistry
    /\ InitLruHistory /\ InitAux

NextRegistry ==
    \E t \in RegThreads :
       /\ \/ \E name \in Names, f \in BOOLEAN : NewGroup(t, name, f)
          \/ NewGroupBody(t)
          \/ \E name \in Names : GetGroupRLock(t, name)
          \/ GetGroupBody(t)
          \/ \E g \in DOMAIN objs, picker \in Pickers : RegisterPeersTest(t, g, picker)
          \/ RegisterPeersAssign(t)
       /\ UNCHANGED <<routerVars, groupVars, storeVars, lruVars, auxVars>>

SpecRegistry == InitRegistryOnly /\ [][NextRegistry]_vars

\* an LRU alone, made by lru.New(budget, hook): one goroutine calling Add,
\* Get and RemoveOldest in any sequence
InitLruOnly ==
    /\ InitRouter({0}) /\ InitGroup /\ InitRegistry /\ InitLruHistory /\ InitAux
    /\ Cache_bytes \in Budgets
    /\ lru_cache = LruNewHook(Cache_bytes, TRUE)
    /\ writer = 0
    /\ readers = {}
    /\ spc = [t \in StoreThreads |-> "idle"]
    /\ skey = [t \in StoreThreads |-> EmptyString]
    /\ sval = [t \in StoreThreads |-> ZeroView]
    /\ torn = [t \in StoreThreads |-> FALSE]
    /\ sret = [t \in StoreThreads |-> NoGet]
    /\ storeOps = 0
    /\ added = [k \in LruKeys |-> NoAdd]

NextLru ==
    /\ \/ \E key \in LruKeys, value \in LruViews : LruOpAdd(key, value)
       \/ \E key \in LruKeys : LruOpGet(key)
       \/ LruOpRemoveOldest
    /\ UNCHANGED <<routerVars, groupVars, regVars, auxVars>>

SpecLru == InitLruOnly /\ [][NextLru]_vars

\* a ByteView alone: it is made from a buffer, its accessors are called and
\* the caller writes to the buffer and to the slices it was given
InitViewOnly ==
    /\ InitRouter({0}) /\ InitGroup /\ InitStore({MaxBudget}) /\ InitRegistry
    /\ InitLruHistory /\ InitView(SeqsUpTo(ByteVals, MaxViewLen)) /\ InitHttp
    /\ InitLocks /\ InitFleet({<<>>})

NextView ==
    /\ \/ NewByteViewCall
       \/ ViewLen
       \/ ViewByteSlice
       \/ ViewString
       \/ \E a \in DOMAIN heap, i \in 1..MaxViewLen, x \in ByteVals : Mutate(a, i, x)
    /\ UNCHANGED <<routerVars, groupVars, storeVars, regVars, lruVars, httpVars, lockVars, fleetVars>>

SpecView == InitViewOnly /\ [][NextView]_vars

\* a node serving requests: the registry holds the group "a" and no group
\* "b"; the picker of the group is the router, Set with one of the lists
\* above.  One goroutine runs Serve, request after request; no other calls
\* Get, so that it never finds a Call to wait for
InitHttpOnly ==
    /\ InitStore({MaxBudget})
    /\ InitLruHistory /\ InitView({<<>>}) /\ InitHttp /\ InitLocks /\ InitFleet({<<>>})
    /\ rmuW = 0
    /\ rmuR = {}
    /\ rpc = [t \in RegThreads |-> "idle"]
    /\ rarg = [t \in RegThreads |-> NoArg]
    /\ rres = [t \in RegThreads |-> NoRes]
    /\ regOps = 0
    /\ hashFn = 0
    /\ picked = NoPick
    /\ earlier = {}
    /\ m = <<>>
    /\ calls = <<>>
    /\ pc = [t \in Threads |-> "idle"]
    /\ tkey = [t \in Threads |-> EmptyString]
    /\ mycall = [t \in Threads |-> 0]
    /\ ret = [t \in Threads |-> NoRet]
    /\ gets = 0
    /\ okVal = [k \in GroupKeys |-> NoVal]
    /\ prior = [t \in Threads |-> NoVal]
    /\ fin = [t \in Threads |-> {}]
    /\ groups = MapPut(<<>>, <<97>>, 1)
    /\ objs = <<[name |-> <<97>>, f |-> TRUE, peers |-> 1, assigns |-> 1]>>
    /\ gpeers = TRUE
    /\ \E P \in ServePeerLists :
          /\ peers = SetRing(P)
          /\ HttpClients = SetClients(P)
          /\ lastSet = [done |-> TRUE, peers |-> P]
    /\ setCount = 1

NextHttp ==
    \/ /\ \E path \in Paths : ServeSplit(Server, path)
       /\ UNCHANGED <<routerVars, groupVars, storeVars, regVars, lruVars, viewVars, lockVars, fleetVars>>
    \/ /\ ServeGetGroup(Server)
       /\ UNCHANGED <<routerVars, storeVars, regVars, lruVars, viewVars, lockVars, fleetVars>>
    \/ /\ \E marshalled \in BOOLEAN : ServeWrite(Server, marshalled)
       /\ UNCHANGED <<routerVars, groupVars, storeVars, regVars, lruVars, viewVars, lockVars, fleetVars>>
    \/ /\ \/ DoLookup(Server)
          \/ FnStart(Server)
          \/ \E b \in Values : PeerOk(Server, b)
          \/ \E e \in PeerErrs : PeerFail(Server, e)
          \/ \E b \in Values : LoadReturn(Server, b, NoErr)
          \/ \E e \in LoaderErrs : LoadReturn(Server, <<>>, e)
          \/ DoDelete(Server)
       /\ UNCHANGED <<routerVars, storeVars, regVars, lruVars, auxVars>>

SpecHttp == InitHttpOnly /\ [][NextHttp]_vars

\* the steps of goroutine t in Get, with the locks taken and released
GetStep(t) ==
    \/ /\ \E k \in GroupKeys : GetEnter(t, k)
       /\ UNCHANGED held
    \/ SfLock(t)
    \/ LockedLookup(t)
    \/ DoWait(t) /\ UNCHANGED held
    \/ PickLock(t)
    \/ LockedFnStart(t)
    \/ /\ \/ \E b \in Values : PeerOk(t, b)
          \/ \E e \in PeerErrs : PeerFail(t, e)
          \/ \E b \in Values : LoadReturn(t, b, NoErr)
          \/ \E e \in LoaderErrs : LoadReturn(t, <<>>, e)
       /\ UNCHANGED held
    \/ LockedDelete(t)

\* a group that was set up before it serves, without a picker or with the
\* router, Set with one of the lists above: goroutines call Get, taking and
\* releasing the locks step by step
InitLocksOnly ==
    /\ InitStore({MaxBudget}) /\ InitRegistry
    /\ InitLruHistory /\ InitAux
    /\ hashFn = 0
    /\ picked = NoPick
    /\ earlier = {}
    /\ m = <<>>
    /\ calls = <<>>
    /\ pc = [t \in Threads |-> "idle"]
    /\ tkey = [t \in Threads |-> EmptyString]
    /\ mycall = [t \in Threads |-> 0]
    /\ ret = [t \in Threads |-> NoRet]
    /\ gets = 0
    /\ okVal = [k \in GroupKeys |-> NoVal]
    /\ prior = [t \in Threads |-> NoVal]
    /\ fin = [t \in Threads |-> {}]
    /\ \/ /\ gpeers = FALSE
          /\ peers = NilMap
          /\ HttpClients = <<>>
          /\ lastSet = [done |-> FALSE, peers |-> <<>>]
          /\ setCount = 0
       \/ \E P \in ServePeerLists :
             /\ gpeers = TRUE
             /\ peers = SetRing(P)
             /\ HttpClients = SetClients(P)
             /\ lastSet = [done |-> TRUE, peers |-> P]
             /\ setCount = 1

NextLocks ==
    \E t \in Threads :
       GetStep(t) /\ UNCHANGED <<routerVars, storeVars, regVars, lruVars, viewVars, httpVars, fleetVars>>

SpecLocks == InitLocksOnly /\ [][NextLocks]_vars

\* a group with or without the router as its picker, the router not Set
\* yet: goroutines call Get while others call Set, PickPeer and NewGroup
InitLive ==
    /\ InitRouter({0}) /\ InitStore({MaxBudget}) /\ InitRegistry
    /\ InitLruHistory /\ InitAux
    /\ gpeers \in BOOLEAN
    /\ m = <<>>
    /\ calls = <<>>
    /\ pc = [t \in Threads |-> "idle"]
    /\ tkey = [t \in Threads |-> EmptyString]
    /\ mycall = [t \in Threads |-> 0]
    /\ ret = [t \in Threads |-> NoRet]
    /\ gets = 0
    /\ okVal = [k \in GroupKeys |-> NoVal]
    /\ prior = [t \in Threads |-> NoVal]
    /\ fin = [t \in Threads |-> {}]

\* a step of goroutine t inside Get, between its call and its return
InGet(t) ==
    /\ pc[t] # "idle"
    /\ GetStep(t)
    /\ UNCHANGED <<routerVars, storeVars, regVars, lruVars, viewVars, httpVars, fleetVars>>

NextLive ==
    \/ NextLocks
    \/ \E P \in ServePeerLists :
          /\ setCount < MaxSets /\ LockedSet(P)
          /\ UNCHANGED <<groupVars, storeVars, regVars, lruVars, auxVars>>
    \/ \E k \in GroupKeys :
          /\ ~picked.done /\ LockedPickPeer(k)
          /\ UNCHANGED <<groupVars, storeVars, regVars, lruVars, auxVars>>
    \/ \E r \in RegThreads :
          /\ \/ \E name \in Names : regOps = 0 /\ NewGroup(r, name, TRUE)
             \/ NewGroupBody(r)
          /\ UNCHANGED <<routerVars, groupVars, storeVars, lruVars, auxVars>>

\* scheduled fairly: a goroutine inside Get that can take a step takes one,
\* and so every loader invocation and every peer fetch returns
FairGets == \A t \in Threads : WF_vars(InGet(t))
SpecLive == InitLive /\ [][NextLive]_vars /\ FairGets

\* a fleet: every node has the same hash function and was Set with the same
\* peer list; a Get is made on the group of one node and followed
InitFleetOnly ==
    /\ InitRouter(0..MaxSalt) /\ InitGroup /\ InitStore({MaxBudget}) /\ InitRegistry
    /\ InitLruHistory /\ InitView({<<>>}) /\ InitHttp /\ InitLocks
    /\ InitFleet(PeerLists)

\* what the fleet steps leave alone
fleetRest == <<routerVars, groupVars, storeVars, regVars, lruVars, viewVars,
               httpVars, lockVars>>

NextFleet ==
    \/ \E n \in PeerIds, k \in FleetKeys : FleetGet(n, k) /\ UNCHANGED fleetRest
    \/ FleetForward /\ UNCHANGED fleetRest
    \/ FleetLoad /\ UNCHANGED fleetRest

SpecFleet == InitFleetOnly /\ [][NextFleet]_vars

(***************************************************************************)
(* Properties.                                                             *)
(***************************************************************************)
\* goroutine t is back from a Get, and ret[t] is what that Get returned
Returned(t) == pc[t] = "idle" /\ ret[t].done
\* goroutine t is running the closure of its Call
InClosure(t) == pc[t] \in {"fn", "peer", "load"}
\* the Calls whose registering caller has not deleted them yet
LiveCalls(k) ==
    {mycall[t] : t \in {u \in Threads : pc[u] \in {"fn", "peer", "load", "del", "panic"}
                                        /\ tkey[u] = k}}
SelfURL == Host \o defaultBasePath

\* number of loader invocations for key k so far
RECURSIVE SumLoads(_, _)
SumLoads(k, n) ==
    IF n = 0 THEN 0
    ELSE SumLoads(k, n - 1) + (IF calls[n].key = k THEN calls[n].loads ELSE 0)
LoaderCalls(k) == SumLoads(k, Len(calls))

\* C1: a Get(k) that begins after a Get(k) of the group returned a value
\* returns a byte-equal value, and not from a later Call whose closure
\* invoked the loader again: for Get(k); Get(k) the loader is called once.
C1_LaterGetServedFromStore ==
    \A t \in Threads :
        (Returned(t) /\ ret[t].err = NoErr /\ prior[t].okCall > 0)
            => /\ ret[t].val = calls[prior[t].okCall].val
               /\ ~(mycall[t] > prior[t].okCall /\ calls[mycall[t]].loads > 0)
               /\ (gets = 2 /\ \A u \in Threads : pc[u] = "idle")
                     => LoaderCalls(ret[t].key) = 1

\* C2: at the return of a successful Get(k) the store of the group holds k
\* with the view returned.
C2_ResultIsCached ==
    [][\A t \in Threads :
          (pc[t] # "idle" /\ pc'[t] = "idle" /\ ret'[t].err = NoErr)
              => /\ ~lru_cache'.nil
                 /\ LruHas(lru_cache', tkey[t])
                 /\ lru_cache'.ll[LruIndex(lru_cache', tkey[t])].value = ret'[t].val
      ]_vars

C4_OneLoadInFlightPerKey ==
    \A k \in GroupKeys :
        /\ Cardinality({t \in Threads : InClosure(t) /\ tkey[t] = k}) <= 1
        /\ Cardinality(LiveCalls(k)) <= 1
        /\ Cardinality({c \in DOMAIN calls : calls[c].key = k /\ ~calls[c].done}) <= 1
        /\ \A x \in DOMAIN m : m[x] \in DOMAIN calls /\ calls[m[x]].key = x

C4_Witness ==
    \E t, u \in Threads :
        pc[t] = "load" /\ pc[u] = "wait" /\ tkey[t] = tkey[u] /\ mycall[t] = mycall[u]

C6_PeerErrorFallsBackToLoader ==
    /\ \A c \in DOMAIN calls :
          calls[c].peerErr # NoErr =>
              /\ calls[c].picked /\ calls[c].loads = 1
              /\ calls[c].done =>
                    /\ calls[c].src = "loader"
                    /\ calls[c].err = calls[c].le
                    /\ calls[c].val = (IF calls[c].le = NoErr
                                       THEN [bt |-> calls[c].lb] ELSE ZeroView)
    /\ \A t \in Threads : ret[t].err \notin PeerErrs

C6_Witness ==
    \E t \in Threads :
        /\ Returned(t) /\ calls[mycall[t]].peerErr \in PeerErrs
        /\ ret[t].err \in LoaderErrs

\* C7: PickPeer never returns the handle of the router's own host: when the
\* ring owner of the key is the own host it returns (nil, false), whatever
\* peer list was Set.
C7_NeverPicksSelf ==
    /\ (picked.done /\ ~picked.panic) =>
          /\ picked.ok => (picked.owner # Host /\ picked.client.BaseURL # SelfURL)
          /\ picked.owner = Host => (~picked.ok /\ picked.client = NilClient)
    /\ ~peers.nil =>
          \A k \in Keys :
              /\ PickPeer(k).client.BaseURL # SelfURL
              /\ MapGet(peers, k) = Host => PickPeer(k) = [ok |-> FALSE,
                                                          client |-> NilClient,
                                                          owner |-> Host]

C7_Witness ==
    /\ picked.done /\ picked.owner = Host /\ ~picked.ok
    /\ Host \in Range(lastSet.peers) /\ Range(lastSet.peers) # {Host}

\* C8: after a Set with no peers PickPeer returns (nil, false) for every
\* key, and a Get whose closure asked the picker then got its value from the
\* loader, with no peer fetch.
C8_EmptySetFallsToLoader ==
    /\ (lastSet.done /\ lastSet.peers = <<>>) =>
          \A k \in Keys : ~PickPeer(k).ok /\ PickPeer(k).client = NilClient
    /\ \A c \in DOMAIN calls :
          calls[c].emptyRing =>
              /\ ~calls[c].picked /\ calls[c].loads = 1
              /\ calls[c].done => calls[c].src = "loader"

C8_Witness ==
    \E t \in Threads :
        /\ Returned(t) /\ calls[mycall[t]].emptyRing
        /\ ret[t].err = NoErr /\ ret[t].val # ZeroView

\* C9: after Set(P) the handle map holds exactly one handle per peer of P,
\* with base URL peer + base path, the ring holds Replicas points per listed
\* peer and names only peers of P, nothing of an earlier membership is left,
\* and a Set with the list of the previous Set changes nothing.
C9_Membership ==
    lastSet.done =>
        /\ DOMAIN HttpClients = Range(lastSet.peers)
        /\ \A p \in DOMAIN HttpClients :
              HttpClients[p] = [nil |-> FALSE, BaseURL |-> p \o defaultBasePath]
        /\ ~peers.nil
        /\ Len(peers.keys) = Replicas * Len(lastSet.peers)
        /\ \A i \in DOMAIN peers.keys : peers.keys[i] \in DOMAIN peers.hashMap
        /\ \A h \in DOMAIN peers.hashMap : peers.hashMap[h] \in Range(lastSet.peers)
        /\ \A p \in earlier \ Range(lastSet.peers) :
              /\ p \notin DOMAIN HttpClients
              /\ \A k \in Keys : MapGet(peers, k) # p

C9_SetAgainChangesNothing ==
    (setCount' = setCount + 1 /\ lastSet.done /\ lastSet'.peers = lastSet.peers)
        => (peers' = peers /\ HttpClients' = HttpClients)

C9_SetReplacesMembership == []C9_Membership /\ [][C9_SetAgainChangesNothing]_vars

C9_Witness ==
    /\ setCount >= 2 /\ lastSet.peers # <<>>
    /\ earlier \ Range(lastSet.peers) # {}

\* C10: a goroutine that modifies the recency list of the inner LRU holds
\* the write lock of the store, and no two goroutines modify it at once.
C10_LruMutatedOnlyUnderWriteLock ==
    /\ \A t \in StoreThreads : spc[t] \in {"add", "move"} => writer = t
    /\ Cardinality({t \in StoreThreads : spc[t] \in {"add", "move"}}) <= 1

\* C11: a Cache.Get that hits returns the view of the latest Add of its key
\* that returned before the Get took the read lock (no Add runs while a Get
\* holds it), whole and never the view stored under another key.
C11_Reading ==
    \A t \in StoreThreads :
        /\ spc[t] \in {"get", "move"} => (t \in readers /\ writer = 0)
        /\ spc[t] = "move" =>
              (added[skey[t]].n > 0 /\ sval[t] = added[skey[t]].val)

C11_Return ==
    \A t \in StoreThreads :
        (spc[t] \in {"get", "move"} /\ spc'[t] = "idle" /\ sret'[t].ok)
            => /\ added' = added
               /\ added[skey[t]].n > 0
               /\ sret'[t] = [done |-> TRUE, key |-> skey[t],
                              val |-> added[skey[t]].val, ok |-> TRUE]
               /\ sret'[t].val \in StoreViews

C11_HitReturnsLatestAdd == []C11_Reading /\ [][C11_Return]_vars

C11_Witness ==
    \E t \in StoreThreads :
        /\ spc[t] = "idle" /\ sret[t].done /\ sret[t].ok
        /\ added[sret[t].key].n >= 2
        /\ sret[t].val = added[sret[t].key].val
        /\ \E k \in StoreKeys \ {sret[t].key} :
              added[k].n > 0 /\ added[k].val # sret[t].val

\* C12: while no Add has returned the inner LRU is nil and every Get
\* misses; a Get never creates it; it is created by an Add that finds it nil,
\* with the budget of the store, and never again: a later Add, of whichever
\* goroutine, adds to the LRU it finds and (with no limit) keeps every entry
\* that is there.
C12_Uncreated ==
    /\ lru_cache.nil <=> (\A k \in StoreKeys : added[k].n = 0)
    /\ lru_cache.nil => \A t \in StoreThreads : sret[t].done => ~sret[t].ok
    /\ ~lru_cache.nil => lru_cache.maxBytes = Cache_bytes

C12_Created ==
    /\ lru_cache'.nil => lru_cache.nil
    /\ lru_cache'.nil # lru_cache.nil =>
          \E t \in StoreThreads : spc[t] = "add" /\ spc'[t] = "idle"
    /\ \A t \in StoreThreads :
          (spc[t] = "add" /\ spc'[t] = "idle" /\ Cache_bytes <= 0) =>
              /\ lru_cache'.ll[1] = [key |-> skey[t], value |-> sval[t]]
              /\ \A i \in DOMAIN lru_cache.ll :
                    lru_cache.ll[i].key # skey[t] =>
                        \E j \in DOMAIN lru_cache'.ll : lru_cache'.ll[j] = lru_cache.ll[i]

C12_LazyInitOnce == []C12_Uncreated /\ [][C12_Created]_vars

C12_Witness ==
    /\ storeOps = 2 /\ \A t \in StoreThreads : spc[t] = "idle"
    /\ \A k \in StoreKeys : added[k].n = 1
    /\ ~lru_cache.nil /\ Len(lru_cache.ll) = Cardinality(StoreKeys)

\* C13: the peer-picker of a group is assigned at most once, whatever the
\* interleaving of the RegisterPeers calls on it.
C13_PickerAssignedOnce ==
    \A g \in DOMAIN objs : objs[g].assigns <= 1

\* C14: NewGroup with a nil loader panics with the registry lock untaken and
\* the registry and the groups built as they were; no group without a loader
\* is ever built or installed.
C14_Loaders ==
    /\ \A g \in DOMAIN objs : objs[g].f
    /\ \A name \in DOMAIN groups : groups[name] \in DOMAIN objs /\ objs[groups[name]].f
    /\ \A t \in RegThreads : rpc[t] = "new" => rarg[t].f

C14_Panic ==
    \A t \in RegThreads :
        (rres'[t] # rres[t] /\ rres'[t].op = "NewGroup" /\ rres'[t].panic)
            => /\ groups' = groups /\ objs' = objs
               /\ rmuW' = rmuW /\ rmuR' = rmuR
               /\ rres'[t].g = NilGroup
               /\ \A name \in Names : Lookup(name)' = Lookup(name)

C14_NilLoaderInstallsNothing == []C14_Loaders /\ [][C14_Panic]_vars

C14_Witness ==
    \E t, u \in RegThreads :
        /\ rres[t].op = "NewGroup" /\ rres[t].panic
        /\ rres[u].op = "GetGroup" /\ rres[u].name = rres[t].name
        /\ rres[u].g # NilGroup /\ Lookup(rres[t].name) = rres[u].g

\* the Group built last under a name, nil when none was
Latest(name) ==
    LET S == {i \in DOMAIN objs : objs[i].name = name}
    IN  IF S = {} THEN NilGroup ELSE CHOOSE i \in S : \A j \in S : j <= i

\* C15: the registry maps every name to the Group built last under it and
\* nothing to a name never used; GetGroup returns just that; NewGroup
\* returns the Group it installed and leaves the other names as they were.
C15_Registry ==
    /\ DOMAIN groups \subseteq Names
    /\ \A name \in Names : Lookup(name) = Latest(name)
    /\ \A t \in RegThreads : rpc[t] \in {"new", "gg"} => rarg[t].name \in Names

C15_Calls ==
    \A t \in RegThreads :
        /\ (rpc[t] = "gg" /\ rpc'[t] = "idle")
              => /\ rres'[t].g = Latest(rarg[t].name)
                 /\ rres'[t].g # NilGroup => objs[rres'[t].g].name = rarg[t].name
                 /\ groups' = groups /\ objs' = objs
        /\ (rpc[t] = "new" /\ rpc'[t] = "idle")
              => /\ rres'[t].g = Len(objs) + 1
                 /\ Lookup(rarg[t].name)' = rres'[t].g
                 /\ \A name \in Names \ {rarg[t].name} : Lookup(name)' = Lookup(name)

C15_GetGroupReturnsLatest == []C15_Registry /\ [][C15_Calls]_vars

C15_Witness ==
    \E t \in RegThreads :
        /\ rpc[t] = "idle" /\ rres[t].op = "GetGroup"
        /\ rres[t].g >= 2 /\ objs[1].name = rres[t].name

\* the sum over the entries of a list of len(key) + value.Len()
RECURSIVE SumBytes(_)
SumBytes(ll) ==
    IF ll = <<>> THEN 0
    ELSE EntryBytes(Head(ll).key, Head(ll).value) + SumBytes(Tail(ll))

\* C16: after every Add, Get and RemoveOldest the byte total of the LRU is
\* the sum over its entries of len(key) + value.Len(), a key has one entry,
\* and with a budget > 0 the total is at most the budget.
C16_ByteTotal ==
    /\ lru_cache.nbytes = SumBytes(lru_cache.ll)
    /\ \A i, j \in DOMAIN lru_cache.ll :
          lru_cache.ll[i].key = lru_cache.ll[j].key => i = j
    /\ lru_cache.maxBytes > 0 => lru_cache.nbytes <= lru_cache.maxBytes

C16_Witness ==
    /\ lastOp.op = "Add" /\ added[lastOp.key].n >= 2
    /\ lru_cache.maxBytes > 0 /\ lru_cache.nbytes = lru_cache.maxBytes
    /\ Len(lru_cache.log) > 0 /\ Len(lru_cache.ll) > 0

\* the latest call was an Add of an entry larger than a budget > 0
OversizeAdd ==
    /\ lastOp.op = "Add" /\ lru_cache.maxBytes > 0
    /\ EntryBytes(lastOp.key, lastOp.value) > lru_cache.maxBytes

\* C17, as claimed: after an Add of an entry larger than a budget > 0 the
\* LRU holds exactly that entry.
C17_OversizeAddKept ==
    OversizeAdd => lru_cache.ll = <<[key |-> lastOp.key, value |-> lastOp.value]>>

\* C17, amended: after an Add of an entry larger than a budget > 0 the LRU
\* holds nothing: every older entry was evicted and then the new entry too,
\* the last the hook was called with.
C17_OversizeAddEvictsAll ==
    OversizeAdd =>
        /\ lru_cache.ll = <<>> /\ lru_cache.nbytes = 0
        /\ lru_cache.log # <<>>
        /\ lru_cache.log[Len(lru_cache.log)] =
              [key |-> lastOp.key, value |-> lastOp.value]

C17_Witness ==
    /\ OversizeAdd /\ lru_cache.ll = <<>>
    /\ storeOps = 2 /\ Len(lru_cache.log) = 2
    /\ lru_cache.log[1].key # lastOp.key

\* C18: the list is in the order of the latest Add or Get hit of its keys,
\* most recent first; after an Add or a Get hit of k the entry of k is at the
\* most-recent end; what a call evicts is older than everything it leaves,
\* oldest first; with room for two entries, the third of three Adds of new
\* keys evicts the first key and the hook is called with it.
C18_Order ==
    /\ \A i \in DOMAIN lru_cache.ll :
          /\ touched[lru_cache.ll[i].key] > 0
          /\ \A j \in DOMAIN lru_cache.ll :
                i < j => touched[lru_cache.ll[i].key] > touched[lru_cache.ll[j].key]
    /\ ((lastOp.op = "Add" /\ ~OversizeAdd) \/ (lastOp.op = "Get" /\ lastOp.ok))
          => /\ lru_cache.ll # <<>>
             /\ lru_cache.ll[1].key = lastOp.key
             /\ lru_cache.ll[1].value = lastOp.value
    /\ (/\ storeOps = 3 /\ \A k \in LruKeys : added[k].n = 1
        /\ \A k \in LruKeys : 2 * EntryBytes(k, added[k].val) = lru_cache.maxBytes)
          => \E k \in LruKeys :
                /\ touched[k] = 1 /\ ~LruHas(lru_cache, k)
                /\ lru_cache.log = <<[key |-> k, value |-> added[k].val]>>

C18_Evicts ==
    /\ Len(lru_cache'.log) >= Len(lru_cache.log)
    /\ SubSeq(lru_cache'.log, 1, Len(lru_cache.log)) = lru_cache.log
    /\ \A i \in (Len(lru_cache.log) + 1)..Len(lru_cache'.log) :
          /\ \A r \in DOMAIN lru_cache'.ll :
                touched'[lru_cache'.ll[r].key] > touched'[lru_cache'.log[i].key]
          /\ \A j \in (i + 1)..Len(lru_cache'.log) :
                touched'[lru_cache'.log[j].key] > touched'[lru_cache'.log[i].key]
          /\ \/ \E r \in DOMAIN lru_cache.ll :
                   lru_cache.ll[r].key = lru_cache'.log[i].key
             \/ lastOp'.key = lru_cache'.log[i].key

C19_AllKept ==
    (lru_cache.maxBytes <= 0 /\ lru_cache.log = <<>>) =>
        /\ \A k \in LruKeys :
              added[k].n > 0 =>
                  /\ LruHas(lru_cache, k)
                  /\ lru_cache.ll[LruIndex(lru_cache, k)].value = added[k].val
        /\ (lastOp.op = "Get" /\ added[lastOp.key].n > 0)
              => (lastOp.ok /\ lastOp.value = added[lastOp.key].val)

C19_NoEviction ==
    (lru_cache.maxBytes <= 0 /\ lastOp'.op \in {"Add", "Get"}
         /\ storeOps' = storeOps + 1)
        => /\ lru_cache'.log = lru_cache.log
           /\ Len(lru_cache'.ll) >= Len(lru_cache.ll)
           /\ \A i \in DOMAIN lru_cache.ll :
                 \E j \in DOMAIN lru_cache'.ll :
                     /\ lru_cache'.ll[j].key = lru_cache.ll[i].key
                     /\ \/ lru_cache'.ll[j].value = lru_cache.ll[i].value
                        \/ (lastOp'.op = "Add" /\ lastOp'.key = lru_cache.ll[i].key)

C19_NoBudgetNoEviction == []C19_AllKept /\ [][C19_NoEviction]_vars

C19_Witness ==
    /\ lru_cache.maxBytes < 0 /\ lru_cache.log = <<>>
    /\ lastOp.op = "Get" /\ lastOp.ok
    /\ Len(lru_cache.ll) = 3 /\ lru_cache.nbytes > MaxBudget

\* the peer lists that name the same set of nodes as the list of the
\* latest Set
SameSet == {Q \in SeqsUpTo(PeerIds, MaxPeers) : Range(Q) = Range(lastSet.peers)}

\* no virtual point of one node of the list has the hash of a virtual point
\* of another
Points(node) == {Hash(Itoa(i) \o node, hashFn) : i \in 0..(Replicas - 1)}
NoCollision(P) ==
    \A a, b \in Range(P) : a # b => Points(a) \cap Points(b) = {}

\* one-byte keys: between them they hash to every point of the hash space
RingKeys == {<<c>> : c \in 0..(HashSpace - 1)}

\* C20, as claimed: a ring built from the same set of nodes, in whatever
\* order, names the same node for every key.
C20_SameSetSameOwner ==
    lastSet.done =>
        \A Q \in SameSet :
            LET ring == SetRing(Q)
            IN  \A k \in RingKeys : MapGet(ring, k) = MapGet(peers, k)

\* C20, amended: a PickPeer changes neither ring nor handles, and repeated
\* with no Set in between it returns the same; rings built from the same set
\* of nodes name the same node for every key when no two virtual points of
\* different nodes have one hash.
C20_NoCollisionSameOwner ==
    (lastSet.done /\ NoCollision(lastSet.peers)) =>
        \A Q \in SameSet :
            LET ring == SetRing(Q)
            IN  \A k \in RingKeys : MapGet(ring, k) = MapGet(peers, k)

C20_Repeat ==
    setCount' = setCount =>
        /\ peers' = peers /\ HttpClients' = HttpClients
        /\ ~peers.nil => picked'.owner = MapGet(peers, picked'.key)
        /\ (/\ picked.done /\ ~picked.panic /\ picked.at = setCount
            /\ picked'.key = picked.key) => picked' = picked

C20_LookupIsAFunction == []C20_NoCollisionSameOwner /\ [][C20_Repeat]_vars

C20_Witness ==
    /\ lastSet.done /\ NoCollision(lastSet.peers)
    /\ Cardinality(Range(lastSet.peers)) = 2
    /\ picked.done /\ picked.at = setCount /\ picked.owner \in Range(lastSet.peers)
    /\ \E Q \in SameSet : Q # lastSet.peers /\ MapGet(SetRing(Q), picked.key) = picked.owner


\* C21: a ByteView made by NewByteView(b) holds a copy of its own: the bytes
\* it holds are those of b when it was made, whatever the caller wrote since
\* to b or to a slice that ByteSlice returned, and every Len, ByteSlice and
\* String call returns the length, the bytes and the string of those bytes.
C21_ViewKeepsItsBytes ==
    view.made =>
        /\ heap[view.bt] = orig
        /\ view.bt \notin {caller} \cup got
        /\ vres.op \in {"ByteSlice", "String"} => vres.bytes = orig
        /\ vres.op = "Len" => vres.n = Len(orig)

\* the caller changed b and a slice it was given, and a ByteSlice call made
\* after both writes was answered
C21_Witness ==
    /\ view.made
    /\ heap[caller] # orig
    /\ \E a \in got : heap[a] # orig
    /\ vres.op = "ByteSlice" /\ vres.muts >= 2
    /\ orig # <<>>


\* the rest of a path has a key part: a "/" ends the group name
HasKeyPart(path) ==
    Len(SplitN2(SubSeq(path, Len(defaultBasePath) + 1, Len(path)))) = 2
\* the group name of a path that has a key part
GroupOf(path) == SplitN2(SubSeq(path, Len(defaultBasePath) + 1, Len(path)))[1]

\* C22: Serve answers 400 to a path without a key part after the base path,
\* 404 when the group named is not registered, 500 when Group.Get returned
\* an error, and 200 with Content-Type application/octet-stream only when
\* Group.Get succeeded; a request answered 400 or 404 never reached
\* Group.Get, and a loader is invoked only inside the Group.Get of a request
\* that passed both tests.
C22_Answers ==
    LET r == resp[Server]
    IN  /\ r.code # 0 /\ ~HasKeyPart(r.path) => r.code = 400
        /\ r.code # 0 /\ HasKeyPart(r.path) /\ Lookup(GroupOf(r.path)) = NilGroup
              => r.code = 404
        /\ r.code # 0 /\ r.err # NoErr => r.code = 500
        /\ r.code = 200 => /\ r.get /\ r.err = NoErr
                           /\ r.ctype = "application/octet-stream"
                           /\ HasKeyPart(r.path)
                           /\ Lookup(GroupOf(r.path)) # NilGroup
        /\ r.code \in {400, 404} => ~r.get
        /\ r.code \in {0, 200, 400, 404, 500}
        /\ hpc[Server] # "get" => pc[Server] = "idle"
C22_Loader ==
    /\ pc'[Server] = "load" /\ pc[Server] # "load"
          => hpc[Server] = "get" /\ resp[Server].get
    /\ resp'[Server].code \in {400, 404} /\ resp'[Server] # resp[Server]
          => UNCHANGED groupVars /\ pc[Server] = "idle"
C22_ServeAnswers == []C22_Answers /\ [][C22_Loader]_vars

\* all four answers were written in one run, the 500 for a loader error
C22_Witness ==
    /\ codes = {200, 400, 404, 500}
    /\ resp[Server].code = 500 /\ resp[Server].err \in LoaderErrs


\* C23: a Do(key, fn) that finds the Call of its key in the map while the
\* closure of that Call has not returned joins the Call and registers
\* none; it stays blocked for as long as the Call is not done; when it
\* leaves the wait it returns the (value, error) in the slots of the Call,
\* which nothing changes once the Call is done, so that all callers of one
\* Call return the same; and it runs no closure of its own: it goes from the
\* wait straight to the return and the Call's count of loads stays.
C23_Joiner ==
    \A t \in Threads :
       /\ (pc[t] = "do" /\ pc'[t] # "do" /\ DoKey(t) \in DOMAIN m
              /\ ~calls[m[DoKey(t)]].done)
             => /\ pc'[t] = "wait"
                /\ mycall'[t] = m[DoKey(t)]
                /\ calls' = calls /\ m' = m
       /\ (pc[t] = "wait" /\ ~calls[mycall[t]].done)
             => pc'[t] = "wait" /\ ret'[t] = ret[t]
       /\ (pc[t] = "wait" /\ pc'[t] # "wait")
             => /\ pc'[t] = "idle"
                /\ ret'[t] = GetResult(tkey[t], calls[mycall[t]].val,
                                       calls[mycall[t]].err)
                /\ calls' = calls
C23_SlotsKept ==
    \A c \in DOMAIN calls : calls[c].done => calls'[c] = calls[c]
C23_SameResult ==
    \A t, u \in Threads :
       (Returned(t) /\ Returned(u) /\ mycall[t] = mycall[u])
          => ret[t].val = ret[u].val /\ ret[t].err = ret[u].err
C23_JoinersWaitAndShare ==
    []C23_SameResult /\ [][C23_Joiner /\ C23_SlotsKept]_vars

\* a joiner and the caller that registered the Call have both returned the
\* error the loader returned
C23_Witness ==
    \E t, u \in Threads :
        /\ t # u /\ Returned(t) /\ Returned(u)
        /\ mycall[t] = mycall[u] /\ mycall[t] \in DOMAIN calls
        /\ calls[mycall[t]].loads = 1
        /\ ret[t].err \in LoaderErrs /\ ret[u].err = ret[t].err


\* C24, as claimed: a Do(key, fn) that begins after a Call of the key has
\* finished (its closure returned and its wait was released) does not join
\* that Call: it returns the result of another Call.
C24_FinishedCallNotJoined ==
    [][\A t \in Threads :
          (pc[t] = "do" /\ pc'[t] # "do") => mycall'[t] \notin fin[t]
      ]_vars

\* C24, amended: a finished Call that its registering caller has deleted is
\* not in the map; a Do that finds no Call under its key registers a fresh
\* Call and goes on to run its own closure; so a Do joins a finished Call
\* only while the registering caller has not deleted it yet.
C24_DeletedNotInMap ==
    \A c \in DOMAIN calls :
       (calls[c].done /\ ~\E u \in Threads : pc[u] = "del" /\ mycall[u] = c)
          => \A k \in DOMAIN m : m[k] # c
C24_Fresh ==
    \A t \in Threads :
       /\ (pc[t] = "do" /\ pc'[t] # "do" /\ DoKey(t) \notin DOMAIN m)
             => /\ pc'[t] = "fn"
                /\ mycall'[t] \notin DOMAIN calls
                /\ mycall'[t] \in DOMAIN calls'
                /\ calls'[mycall'[t]] = NewCall(tkey[t])
       /\ (pc[t] = "do" /\ pc'[t] # "do" /\ mycall'[t] \in fin[t])
             => \E u \in Threads : pc[u] = "del" /\ mycall[u] = mycall'[t]
C24_FreshCallAfterDelete == []C24_DeletedNotInMap /\ [][C24_Fresh]_vars

\* a Get that began after a Call of its key had finished has returned what
\* its own closure, run for a fresh Call, got from the loader
C24_Witness ==
    \E t \in Threads :
        /\ Returned(t) /\ fin[t] # {}
        /\ mycall[t] \notin fin[t]
        /\ calls[mycall[t]].loads = 1 /\ calls[mycall[t]].src = "loader"
        /\ \A u \in Threads \ {t} : mycall[u] # mycall[t]


\* C25: every Get that was called returns in the end, given that goroutines
\* are scheduled fairly and every loader invocation and peer fetch returns.
C25_EveryGetReturns ==
    \A t \in Threads : (pc[t] # "idle") ~> (pc[t] = "idle")


\* C27: while the loader or a peer fetch runs for a Get, the goroutine that
\* runs it holds no lock: not the one of the registry, of the router, of the
\* store or of the single-flight group.
C27_NoLockAcrossLoad ==
    \A t \in Threads :
       /\ held[t] \subseteq LockNames
       /\ pc[t] \in {"peer", "load"} => held[t] = {}

\* a loader runs while another goroutine holds the single-flight mutex for
\* its lookup, after the router's mutex was taken and released for PickPeer
C27_Witness ==
    \E t, u \in Threads :
        /\ pc[t] = "load" /\ gpeers /\ calls[mycall[t]].peerErr \in PeerErrs
        /\ pc[u] = "do" /\ held[u] = {"sf"}


\* C26: a Call whose peer fetch succeeded was made with a picker registered
\* and a remote peer picked; its result is a view of exactly the bytes the
\* fetch returned, with no error; its closure did not invoke the loader; and
\* the Gets that return from that Call return that view.  A closure leaves
\* the peer fetch either with the peer's bytes as its result or, after an
\* error, for the loader.
C26_PeerResult ==
    /\ \A c \in DOMAIN calls :
          calls[c].src = "peer" =>
              /\ gpeers /\ calls[c].picked /\ calls[c].done
              /\ calls[c].peerErr = NoErr
              /\ calls[c].val = [bt |-> calls[c].pb]
              /\ calls[c].err = NoErr
              /\ calls[c].loads = 0
    /\ \A t \in Threads :
          (Returned(t) /\ mycall[t] \in DOMAIN calls /\ calls[mycall[t]].src = "peer")
              => /\ ret[t].err = NoErr
                 /\ ret[t].val.bt = calls[mycall[t]].pb
C26_PeerStep ==
    \A t \in Threads :
       (pc[t] = "peer" /\ pc'[t] # "peer")
          => \/ /\ pc'[t] = "del"
                /\ calls'[mycall[t]].src = "peer"
                /\ calls'[mycall[t]].loads = 0
             \/ /\ pc'[t] = "load"
                /\ calls'[mycall[t]].peerErr \in PeerErrs
C26_PeerBytesReturned == []C26_PeerResult /\ [][C26_PeerStep]_vars

\* a Get has returned the bytes a peer supplied, and no loader ran
C26_Witness ==
    \E t \in Threads :
        /\ Returned(t) /\ mycall[t] \in DOMAIN calls
        /\ calls[mycall[t]].src = "peer"
        /\ calls[mycall[t]].pb \in Values
        /\ ret[t].val.bt = calls[mycall[t]].pb
        /\ LoaderCalls(ret[t].key) = 0


RECURSIVE Walk(_, _, _)
\* the first point of the set S met when going round the hash space from h
\* upwards, n steps at most
Walk(S, h, n) ==
    IF h \in S \/ n = 0 THEN h ELSE Walk(S, (h + 1) % HashSpace, n - 1)

\* the successor of the key on the ring, searched point by point
Successor(ring, key) ==
    IF Range(ring.keys) = {} THEN EmptyString
    ELSE ring.hashMap[Walk(Range(ring.keys), Hash(key, ring.salt), HashSpace)]

\* C28: Get on a ring without points returns the empty string; on any other
\* ring it returns the node recorded for the smallest virtual point that is
\* >= hash(key), or for the smallest point of all when hash(key) is above
\* every point; and it agrees, for every key, with the successor found by
\* going round the hash space point by point.  The owner a PickPeer call
\* found is that successor on the ring of its time.
C28_GetIsSuccessor ==
    /\ ~peers.nil =>
          \A k \in RingKeys \cup Keys :
             LET h == Hash(k, peers.salt)
                 S == Range(peers.keys)
                 Up == {p \in S : p >= h}
                 Min(T) == CHOOSE p \in T : \A q \in T : p <= q
             IN  /\ S = {} => MapGet(peers, k) = EmptyString
                 /\ S # {} /\ Up # {} => MapGet(peers, k) = peers.hashMap[Min(Up)]
                 /\ S # {} /\ Up = {} => MapGet(peers, k) = peers.hashMap[Min(S)]
                 /\ MapGet(peers, k) = Successor(peers, k)
    /\ (picked.done /\ ~picked.panic /\ picked.at = setCount)
          => picked.owner = Successor(peers, picked.key)

\* PickPeer was called on a ring of two nodes, on which some key hashes above
\* every point and is given to the node of the smallest point
C28_Witness ==
    /\ ~peers.nil /\ Cardinality(Range(lastSet.peers)) = 2
    /\ picked.done /\ picked.at = setCount /\ picked.owner # EmptyString
    /\ \E k \in RingKeys :
          /\ \A i \in DOMAIN peers.keys : peers.keys[i] < Hash(k, peers.salt)
          /\ MapGet(peers, k) = peers.hashMap[peers.keys[1]]
          /\ MapGet(peers, k) # peers.hashMap[peers.keys[Len(peers.keys)]]


\* C29: with one peer list on every node a Get goes through one hop at most:
\* the node the request is forwarded to is the ring owner of the key, its
\* own PickPeer of that key picks no peer, and the request is not forwarded
\* again.
C29_AtMostOneHop ==
    /\ Len(trail) >= 2 =>
          /\ trail[2].node = MapGet(SetRing(flist), trail[1].key)
          /\ ~PickPeerAt(trail[2].node, flist, trail[1].key).ok
    /\ Len(trail) <= 2

=============================================================================
